---- MODULE Spec2Model ----
(***************************************************************************)
(* Model of the RustGraph command-line analyses built on rust-analyzer:    *)
(*   - struct_analyzer.rs : Anchor account-struct analysis, the            *)
(*     #[account(...)] constraint parser and the PDA relationship analyzer *)
(*   - call_hierarchy.rs  : function catalogue and call-graph construction *)
(*   - source_finder.rs / symbol_finder.rs : symbol search                 *)
(* Text is modelled as a sequence of one-character strings, byte offsets   *)
(* are 0-based as in Rust, Option<T> is a sequence of length 0 or 1.       *)
(***************************************************************************)
EXTENDS Integers, Sequences, FiniteSets, TLC

VARIABLES
    \* ---- ConstraintParser::parse_constraint_tokens applied to one payload
    attr_clauses,      \* the clauses of the attribute, in source order
    token_text,        \* the rendered payload handed to the parser
    parsed,            \* outcome of parse_constraint_tokens
    parser_pc,         \* "idle" | "ready" | "done"
    \* ---- PdaAnalyzer::find_shared_seeds applied to two seed lists
    seeds1,
    seeds2,
    shared,            \* find_shared_seeds(seeds1, seeds2)
    shared_swapped,    \* find_shared_seeds(seeds2, seeds1)
    shared_pc,         \* set of directions already computed
    \* ---- StructAnalyzer::analyze (struct_analyzer.rs)
    declarations,      \* the struct declarations extract_all_structs has met
    structs,           \* Vec<Struct> returned by extract_all_structs
    struct_idx,        \* position of the loop in analyze_account_structs
    account_structs,   \* Vec<AccountStructInfo>
    pda_relationships, \* Vec<PdaRelationship>
    constraint_summary, \* ConstraintSummary of the result, once built
    statistics,        \* AnalysisStatistics of the result, once built
    analyzer_pc,       \* "idle" | "extract" | "structs" | "relationships" | "done"
    \* ---- flags::CallHierarchy::run (call_hierarchy.rs)
    functions,         \* Vec<FunctionInfo> built by extract_all_functions
    func_idx,          \* position of the loop in analyze_call_relationships
    call_relations,    \* Vec<CallRelation>
    edge_items,        \* for each call relation, the CallItem it was made from
    outgoing_calls,    \* for each caller visited, the call items the engine reported
    calls_reported,    \* number of call items the engine has reported so far
    calls_pc,          \* "idle" | "extract" | "calls" | "done"
    \* ---- flags::SourceFinder::run and flags::SymbolFinder::run
    search_cmd,        \* "source_finder" | "symbol_finder" | "none"
    symbol_name,       \* the requested name
    symbol_type,       \* --symbol-type of the symbol finder
    search_cancelled,  \* the engine cancelled the symbol search
    search_results,    \* the result list of the search operation
    symbol_idx,        \* position of the loop over the found symbols
    outputs,           \* what the run has written so far
    listing_reported,  \* number of call items the engine has reported to the source finder
    run_result,        \* "running" | "ok" | "err" | "panic"
    search_pc,         \* "idle" | "search" | "process" | "done"
    \* ---- one iteration of the loop of StructAnalyzer::extract_struct_fields
    field_attrs,       \* the attributes of the field
    field_outcome,     \* the AccountField pushed, or the panic
    field_pc,          \* "idle" | "ready" | "done"
    \* ---- the module work-list of extract_all_functions and extract_all_structs
    module_children,   \* the children of each module, as the engine answers
    crate_roots,       \* the root modules of the crates of Crate::all
    visit_queue,       \* Vec<Module>, used as a stack
    visited_modules,   \* FxHashSet<Module>
    scanned_modules,   \* the modules whose declarations were scanned, in order
    modules_pc,        \* "idle" | "roots" | "loop" | "done"
    \* ---- one call of SourceFinder::extract_symbol_source
    file_source_text,  \* the text of the file
    symbol_range,      \* the full range of the navigation target
    symbol_source,     \* what the call returned, or the panic
    source_pc          \* "idle" | "ready" | "done"

parser_vars == <<attr_clauses, token_text, parsed, parser_pc>>
shared_vars == <<seeds1, seeds2, shared, shared_swapped, shared_pc>>
analyzer_vars == <<declarations, structs, struct_idx, account_structs, pda_relationships,
                   constraint_summary, statistics, analyzer_pc>>
calls_vars == <<functions, func_idx, call_relations, edge_items, outgoing_calls,
                calls_reported, calls_pc>>
search_vars == <<search_cmd, symbol_name, symbol_type, search_cancelled, search_results,
                 symbol_idx, outputs, listing_reported, run_result, search_pc>>
field_vars == <<field_attrs, field_outcome, field_pc>>
modules_vars == <<module_children, crate_roots, visit_queue, visited_modules, scanned_modules,
                  modules_pc>>
source_vars == <<file_source_text, symbol_range, symbol_source, source_pc>>
vars == <<parser_vars, shared_vars, analyzer_vars, calls_vars, search_vars, field_vars, modules_vars, source_vars>>

(***************************************************************************)
(* Bounds of the model.                                                    *)
(***************************************************************************)
\* clauses in one #[account(...)] attribute
MaxClauses == 3
\* components in one seed list
MaxSeeds == 2
\* struct declarations in the workspace
MaxStructs == 2
\* fields of all the structs of the workspace together
MaxFields == 3
\* function declarations in the workspace
MaxFunctions == 2
\* call items the engine reports in one run
MaxCalls == 2
\* navigation targets in one answer of the symbol search
MaxResults == 2

\* #[account(...)] attributes of one field
MaxAttrs == 2

\* modules of the loaded crates, and parent-child links between them
MaxModules == 3
MaxChildLinks == 3

\* characters of a file text handed to extract_symbol_source
MaxTextLen == 4

(***************************************************************************)
(* Option<T>                                                               *)
(***************************************************************************)
None == <<>>

Some(x) == <<x>>

unwrap_or(opt, default) == IF opt = None THEN default ELSE opt[1]

\* let x = value; body(x)
Let(value, body(_)) == body(value)

(***************************************************************************)
(* str operations used by the analyzers (Rust std semantics).              *)
(***************************************************************************)
NotFound == -1

Whitespace == {" ", "\t", "\n"}

\* &s[n..]
SliceFrom(s, n) == SubSeq(s, n + 1, Len(s))

\* &s[..n]
SliceTo(s, n) == SubSeq(s, 1, n)

\* &s[a..b], defined for a <= b <= len
Slice(s, a, b) == SubSeq(s, a + 1, b)

MatchesAt(s, pat, off) ==
    /\ off + Len(pat) <= Len(s)
    /\ SubSeq(s, off + 1, off + Len(pat)) = pat

\* str::find: byte offset of the first match, NotFound for None
find(s, pat) ==
    IF \E off \in 0..Len(s) : MatchesAt(s, pat, off)
    THEN CHOOSE off \in 0..Len(s) :
            /\ MatchesAt(s, pat, off)
            /\ \A o2 \in 0..(off - 1) : ~MatchesAt(s, pat, o2)
    ELSE NotFound

contains(s, pat) == find(s, pat) # NotFound

starts_with(s, pat) == MatchesAt(s, pat, 0)

ends_with(s, pat) == Len(pat) <= Len(s) /\ MatchesAt(s, pat, Len(s) - Len(pat))

RECURSIVE trim_start(_)
trim_start(s) ==
    IF s # <<>> /\ Head(s) \in Whitespace THEN trim_start(Tail(s)) ELSE s

RECURSIVE trim_end(_)
trim_end(s) ==
    IF s # <<>> /\ s[Len(s)] \in Whitespace
    THEN trim_end(SubSeq(s, 1, Len(s) - 1))
    ELSE s

trim(s) == trim_end(trim_start(s))

\* str::split(sep): the pieces between separators; always at least one piece
RECURSIVE split(_, _)
split(s, sep) ==
    Let(find(s, sep), LAMBDA at :
        IF at = NotFound
        THEN <<s>>
        ELSE <<SliceTo(s, at)>> \o split(SliceFrom(s, at + Len(sep)), sep))

\* [T]::join(sep)
RECURSIVE join(_, _)
join(pieces, sep) ==
    IF pieces = <<>> THEN <<>>
    ELSE IF Len(pieces) = 1 THEN pieces[1]
    ELSE pieces[1] \o sep \o join(Tail(pieces), sep)

\* part.find(',').or_else(|| part.find(')'))
find_comma_or_paren(part) ==
    Let(find(part, <<",">>), LAMBDA comma :
        IF comma # NotFound THEN comma ELSE find(part, <<")">>))

(***************************************************************************)
(* Keywords of the #[account(...)] recogniser.                             *)
(***************************************************************************)
Kw ==
    [Init |->
        <<"i", "n", "i", "t">>,
     Payer |->
        <<"p", "a", "y", "e", "r", " ", "=", " ">>,
     Space |->
        <<"s", "p", "a", "c", "e", " ", "=", " ">>,
     Mut |->
        <<"m", "u", "t">>,
     MutComma |->
        <<"m", "u", "t", ",">>,
     Seeds |->
        <<"s", "e", "e", "d", "s", " ", "=", " ">>,
     SeedsOpen |->
        <<"s", "e", "e", "d", "s", " ", "=", " ", "[">>,
     Bump |->
        <<"b", "u", "m", "p">>,
     BumpEq |->
        <<"b", "u", "m", "p", " ", "=", " ">>,
     AssociatedToken |->
        <<"a", "s", "s", "o", "c", "i", "a", "t", "e", "d", "_", "t", "o", "k", "e", "n">>,
     Mint |->
        <<"m", "i", "n", "t", " ", "=", " ">>,
     Authority |->
        <<"a", "u", "t", "h", "o", "r", "i", "t", "y", " ", "=", " ">>,
     ToLeBytes |->
        <<".", "t", "o", "_", "l", "e", "_", "b", "y", "t", "e", "s", "(", ")">>]

ToLeBytesAsRef ==
    <<".", "t", "o", "_", "l", "e", "_", "b", "y", "t", "e", "s", "(", ")", ".", "a", "s",
      "_", "r", "e", "f", "(", ")">>

BytePrefix ==
    <<"b", "\"">>

Quote ==
    <<"\"">>

(***************************************************************************)
(* SeedComponent, BumpInfo, ConstraintType, ConstraintInfo                 *)
(***************************************************************************)
StringLiteral(text) == [kind |-> "StringLiteral", text |-> text]

Variable(name, transformation) ==
    [kind |-> "Variable", name |-> name, transformation |-> transformation]

BumpAuto == [kind |-> "Auto"]

BumpExplicit(text) == [kind |-> "Explicit", text |-> text]

ConstraintInfo(constraint_type, parameters) ==
    [constraint_type |-> constraint_type, parameters |-> parameters,
     error_code |-> None]

\* The outcome of a call: a returned value, or a panic that unwinds.
Returned(v) == [panicked |-> FALSE, value |-> v]

Panicked == [panicked |-> TRUE, value |-> <<>>]

(***************************************************************************)
(* ConstraintParser::parse_seeds                                           *)
(***************************************************************************)
\* The byte-string literal is kept with its wrapper.
parse_seed_part_keeps_wrapper(piece) ==
    Let(trim(piece), LAMBDA seed_part :
        IF starts_with(seed_part, BytePrefix) /\ ends_with(seed_part, Quote)
        THEN Returned(StringLiteral(seed_part))
        ELSE IF contains(seed_part, Kw.ToLeBytes)
        THEN Returned(Variable(split(seed_part, <<".">>)[1], Some(ToLeBytesAsRef)))
        ELSE Returned(Variable(seed_part, None)))

\* One iteration of the loop over seeds_content.split(',').
parse_seed_part(piece) ==
    Let(trim(piece), LAMBDA seed_part :
        IF starts_with(seed_part, BytePrefix) /\ ends_with(seed_part, Quote)
        THEN \* &seed_part[2..seed_part.len() - 1] panics when 2 > len - 1
             IF 2 > Len(seed_part) - 1
             THEN Panicked
             ELSE Returned(StringLiteral(Slice(seed_part, 2, Len(seed_part) - 1)))
        ELSE IF contains(seed_part, Kw.ToLeBytes)
        THEN Returned(Variable(split(seed_part, <<".">>)[1], Some(ToLeBytesAsRef)))
        ELSE Returned(Variable(seed_part, None)))

RECURSIVE parse_seed_parts(_)
parse_seed_parts(pieces) ==
    IF pieces = <<>>
    THEN Returned(<<>>)
    ELSE Let(parse_seed_part(Head(pieces)), LAMBDA first :
             IF first.panicked
             THEN Panicked
             ELSE Let(parse_seed_parts(Tail(pieces)), LAMBDA rest :
                      IF rest.panicked
                      THEN Panicked
                      ELSE Returned(<<first.value>> \o rest.value)))

parse_seeds(text) ==
    Let(find(text, Kw.SeedsOpen), LAMBDA seeds_start :
        IF seeds_start = NotFound
        THEN Returned(<<>>)
        ELSE Let(SliceFrom(text, seeds_start + 9), LAMBDA seeds_part :
             Let(find(seeds_part, <<"]">>), LAMBDA seeds_end :
                 IF seeds_end = NotFound
                 THEN Returned(<<>>)
                 ELSE parse_seed_parts(split(SliceTo(seeds_part, seeds_end), <<",">>)))))

(***************************************************************************)
(* ConstraintParser::parse_bump                                            *)
(***************************************************************************)
\* The test for `bump = ` left out: every bump is the automatic one.
parse_bump_always_auto(text) ==
    IF contains(text, Kw.Bump) THEN Some(BumpAuto) ELSE None

parse_bump(text) ==
    IF contains(text, Kw.Bump)
    THEN IF contains(text, Kw.BumpEq)
         THEN Let(SliceFrom(text, find(text, Kw.BumpEq) + 7), LAMBDA bump_part :
              Let(find_comma_or_paren(bump_part), LAMBDA bump_end :
                  IF bump_end # NotFound
                  THEN Some(BumpExplicit(trim(SliceTo(bump_part, bump_end))))
                  ELSE None))
         ELSE Some(BumpAuto)
    ELSE None

(***************************************************************************)
(* ConstraintParser::parse_constraint_tokens                               *)
(***************************************************************************)
\* `key = X`: the text after the key up to the next comma, else the next ')'
extract_value(text, key) ==
    Let(find(text, key), LAMBDA key_start :
        IF key_start = NotFound
        THEN None
        ELSE Let(SliceFrom(text, key_start + Len(key)), LAMBDA part :
             Let(find_comma_or_paren(part), LAMBDA part_end :
                 IF part_end = NotFound
                 THEN None
                 ELSE Some(trim(SliceTo(part, part_end))))))

parse_init(text) ==
    IF contains(text, Kw.Init)
    THEN Let(extract_value(text, Kw.Payer), LAMBDA payer :
         Let(extract_value(text, Kw.Space), LAMBDA space :
             <<ConstraintInfo([kind |-> "Init", payer |-> unwrap_or(payer, <<>>),
                               space |-> space, owner |-> None],
                              {<<"payer", payer[i]>> : i \in 1..Len(payer)}
                              \cup {<<"space", space[i]>> : i \in 1..Len(space)})>>))
    ELSE <<>>

parse_mut(text) ==
    IF contains(text, Kw.Mut) /\ ~contains(text, Kw.MutComma)
    THEN <<ConstraintInfo([kind |-> "Mut"], {})>>
    ELSE <<>>

parse_associated_token(text) ==
    IF contains(text, Kw.AssociatedToken)
    THEN <<ConstraintInfo([kind |-> "AssociatedToken",
                           mint |-> unwrap_or(extract_value(text, Kw.Mint), <<>>),
                           authority |-> unwrap_or(extract_value(text, Kw.Authority), <<>>),
                           token_program |-> None], {})>>
    ELSE <<>>

parse_constraint_tokens(text) ==
    Let(IF contains(text, Kw.Seeds) THEN parse_seeds(text) ELSE Returned(<<>>),
        LAMBDA seeds :
        IF seeds.panicked
        THEN Panicked
        ELSE Returned(
               parse_init(text)
               \o parse_mut(text)
               \o (IF contains(text, Kw.Seeds)
                   THEN <<ConstraintInfo([kind |-> "Seeds", seeds |-> seeds.value,
                                          bump |-> parse_bump(text)], {})>>
                   ELSE <<>>)
               \o parse_associated_token(text)))

(***************************************************************************)
(* PdaAnalyzer                                                             *)
(***************************************************************************)
PdaInfo(seeds, bump) ==
    [seeds |-> seeds, bump |-> bump, program_id |-> None,
     canonical_bump |-> None, derived_address |-> None]

\* The descriptor is built from the last Seeds constraint of the list.
RECURSIVE extract_pda_info_from_last(_)
extract_pda_info_from_last(constraints) ==
    IF constraints = <<>>
    THEN None
    ELSE LET ct == constraints[Len(constraints)].constraint_type
         IN  IF ct.kind = "Seeds"
             THEN Some(PdaInfo(ct.seeds, unwrap_or(ct.bump, BumpAuto)))
             ELSE extract_pda_info_from_last(SubSeq(constraints, 1, Len(constraints) - 1))

RECURSIVE extract_pda_info(_)
extract_pda_info(constraints) ==
    IF constraints = <<>>
    THEN None
    ELSE LET ct == Head(constraints).constraint_type
         IN  IF ct.kind = "Seeds"
             THEN Some(PdaInfo(ct.seeds, unwrap_or(ct.bump, BumpAuto)))
             ELSE extract_pda_info(Tail(constraints))

\* The match of find_shared_seeds with a kind-crossing arm added.
seed_match_cross_kind(seed1, seed2) ==
    CASE seed1.kind = "StringLiteral" /\ seed2.kind = "StringLiteral" ->
            IF seed1.text = seed2.text THEN <<seed1.text>> ELSE <<>>
      [] seed1.kind = "Variable" /\ seed2.kind = "Variable" ->
            IF seed1.name = seed2.name THEN <<seed1.name>> ELSE <<>>
      [] seed1.kind = "StringLiteral" /\ seed2.kind = "Variable" ->
            IF seed1.text = seed2.name THEN <<seed1.text>> ELSE <<>>
      [] OTHER -> <<>>

\* The match in the body of find_shared_seeds: what one (seed1, seed2) pushes.
seed_match(seed1, seed2) ==
    CASE seed1.kind = "StringLiteral" /\ seed2.kind = "StringLiteral" ->
            IF seed1.text = seed2.text THEN <<seed1.text>> ELSE <<>>
      [] seed1.kind = "Variable" /\ seed2.kind = "Variable" ->
            IF seed1.name = seed2.name THEN <<seed1.name>> ELSE <<>>
      [] OTHER -> <<>>

\* inner loop: for seed2 in seeds2
RECURSIVE shared_with(_, _)
shared_with(seed1, s2) ==
    IF s2 = <<>>
    THEN <<>>
    ELSE seed_match(seed1, Head(s2)) \o shared_with(seed1, Tail(s2))

\* outer loop: for seed1 in seeds1
RECURSIVE find_shared_seeds(_, _)
find_shared_seeds(s1, s2) ==
    IF s1 = <<>>
    THEN <<>>
    ELSE shared_with(Head(s1), s2) \o find_shared_seeds(Tail(s1), s2)

RECURSIVE flat_map_pda_fields(_)
flat_map_pda_fields(infos) ==
    IF infos = <<>>
    THEN <<>>
    ELSE SelectSeq(Head(infos).fields, LAMBDA f : f.is_pda)
         \o flat_map_pda_fields(Tail(infos))

\* pda_fields.iter().skip(i) : the inner loop starting at pda1 itself
skip_from_self(pda_fields, i) == SubSeq(pda_fields, i + 1, Len(pda_fields))

\* pda_fields.iter().skip(i + 1), i the 0-based index of pda1
skip_after(pda_fields, i) == SubSeq(pda_fields, i + 2, Len(pda_fields))

relationship_of(pda1, pda2) ==
    IF pda1.pda_info # None /\ pda2.pda_info # None
    THEN LET shared_seeds ==
                 find_shared_seeds(pda1.pda_info[1].seeds, pda2.pda_info[1].seeds)
         IN  IF shared_seeds # <<>>
             THEN <<[parent |-> pda1.name, child |-> pda2.name,
                     relationship_type |-> "shared_seeds",
                     shared_seeds |-> shared_seeds]>>
             ELSE <<>>
    ELSE <<>>

RECURSIVE relationships_with(_, _)
relationships_with(pda1, others) ==
    IF others = <<>>
    THEN <<>>
    ELSE relationship_of(pda1, Head(others)) \o relationships_with(pda1, Tail(others))

RECURSIVE relationships_from(_, _)
relationships_from(pda_fields, i) ==
    IF i >= Len(pda_fields)
    THEN <<>>
    ELSE relationships_with(pda_fields[i + 1], skip_after(pda_fields, i))
         \o relationships_from(pda_fields, i + 1)

analyze_relationships(infos) == relationships_from(flat_map_pda_fields(infos), 0)

(***************************************************************************)
(* The files of the snapshot: vfs paths, texts and line indexes.           *)
(***************************************************************************)
FileIds == {"lib", "utils", "outside", "registry", "git", "target"}

ProjectRoot ==
    <<"/", "p">>

\* lib.rs and utils.rs are files of the project; the others are a file
\* outside the project root and files of the registry cache, of the git
\* cache and of the build output
vfs_file_path ==
    [f \in FileIds |->
        CASE f = "lib" -> <<"/", "p", "/", "l", "i", "b", ".", "r", "s">>
          [] f = "utils" -> <<"/", "p", "/", "u", "t", "i", "l", "s", ".", "r", "s">>
          [] f = "outside" -> <<"/", "q", "/", "s", ".", "r", "s">>
          [] f = "registry" ->
                <<"/", "p", "/", ".", "c", "a", "r", "g", "o", "/", "r", "e", "g", "i", "s",
                  "t", "r", "y", "/", "d", ".", "r", "s">>
          [] f = "git" ->
                <<"/", "p", "/", ".", "c", "a", "r", "g", "o", "/", "g", "i", "t", "/", "v",
                  ".", "r", "s">>
          [] f = "target" ->
                <<"/", "p", "/", "t", "a", "r", "g", "e", "t", "/", "g", ".", "r", "s">>]

\* utils.rs has two lines; every other file has three, the second one empty
file_text ==
    [f \in FileIds |->
        IF f = "utils"
        THEN <<"x", "\n", "y">>
        ELSE <<"a", "b", "\n", "\n", "c", "d", "e">>]

\* LineIndex::new: the text length and the offset at which each line starts
line_index(f) ==
    LET text == file_text[f]
        newlines == {i \in 1..Len(text) : text[i] = "\n"}
    IN  [len |-> Len(text), line_starts |-> {0} \cup newlines]

\* LineIndex::line_col: 0-based line and column of a byte offset
line_col(li, offset) ==
    LET start == CHOOSE st \in li.line_starts :
                    /\ st <= offset
                    /\ \A s2 \in li.line_starts : s2 <= offset => s2 <= st
    IN  [line |-> Cardinality({s2 \in li.line_starts : s2 < start}),
         col |-> offset - start]

(***************************************************************************)
(* StructAnalyzer: the per-struct analysis                                 *)
(***************************************************************************)
\* the marker names has_accounts_derive and extract_derives look for
KwDerive ==
    [Accounts |->
        <<"A", "c", "c", "o", "u", "n", "t", "s">>,
     Clone |->
        <<"C", "l", "o", "n", "e">>,
     Debug |->
        <<"D", "e", "b", "u", "g">>]

Attr(path, tt) == [path |-> path, token_tree |-> Some(tt)]

\* the path markers of the dependency caches and of the build output
ExternalMarkers ==
    {<<".", "c", "a", "r", "g", "o", "/", "r", "e", "g", "i", "s", "t", "r", "y", "/">>,
     <<".", "c", "a", "r", "g", "o", "/", "g", "i", "t", "/">>,
     <<"/", "t", "a", "r", "g", "e", "t", "/">>}

\* StructAnalyzer::is_external_struct. The path is looked at only when the
\* source of the struct resolves and its file id is the id of a real file;
\* the file id of a macro expansion is none, and the struct is then kept.
is_external_struct(struct_def) ==
    IF struct_def.source # None /\ ~struct_def.macro_file
    THEN Let(vfs_file_path[struct_def.source[1].file], LAMBDA file_path :
             \/ ~starts_with(file_path, ProjectRoot)
             \/ \E marker \in ExternalMarkers : contains(file_path, marker))
    ELSE FALSE

has_accounts_derive(attrs) ==
    \E i \in DOMAIN attrs :
        /\ attrs[i].path = "derive"
        /\ attrs[i].token_tree # None
        /\ contains(attrs[i].token_tree[1], KwDerive.Accounts)

RECURSIVE extract_derives(_)
extract_derives(attrs) ==
    IF attrs = <<>>
    THEN <<>>
    ELSE LET attr == Head(attrs)
             here ==
                 IF attr.path = "derive" /\ attr.token_tree # None
                 THEN (IF contains(attr.token_tree[1], KwDerive.Accounts)
                       THEN <<"Accounts">> ELSE <<>>)
                      \o (IF contains(attr.token_tree[1], KwDerive.Clone)
                          THEN <<"Clone">> ELSE <<>>)
                      \o (IF contains(attr.token_tree[1], KwDerive.Debug)
                          THEN <<"Debug">> ELSE <<>>)
                 ELSE <<>>
         IN  here \o extract_derives(Tail(attrs))

\* ConstraintParser::parse_constraints: every #[account(...)] attribute
RECURSIVE parse_constraints(_)
parse_constraints(attrs) ==
    IF attrs = <<>>
    THEN Returned(<<>>)
    ELSE Let(Head(attrs), LAMBDA attr :
         Let(IF attr.path = "account" /\ attr.token_tree # None
             THEN parse_constraint_tokens(attr.token_tree[1])
             ELSE Returned(<<>>), LAMBDA here :
             IF here.panicked
             THEN Panicked
             ELSE Let(parse_constraints(Tail(attrs)), LAMBDA rest :
                      IF rest.panicked
                      THEN Panicked
                      ELSE Returned(here.value \o rest.value))))

convert_to_relative_path(path) ==
    IF starts_with(path, ProjectRoot \o <<"/">>)
    THEN SliceFrom(path, Len(ProjectRoot) + 1)
    ELSE path

\* the name generate_constraint_summary gives a constraint; the parser builds
\* no constraint of another kind
constraint_name(constraint_type) ==
    CASE constraint_type.kind = "Init" -> "init"
      [] constraint_type.kind = "Mut" -> "mut"
      [] constraint_type.kind = "AssociatedToken" -> "associated_token"
      [] constraint_type.kind = "Seeds" -> "seeds"

\* account_structs.iter().flat_map(|s| &s.fields)
RECURSIVE flat_map_fields(_)
flat_map_fields(infos) ==
    IF infos = <<>>
    THEN <<>>
    ELSE Head(infos).fields \o flat_map_fields(Tail(infos))

\* The loops of generate_constraint_summary over the fields that are left:
\* the counters and the histogram after them.
RECURSIVE summary_after(_, _)
summary_after(fields, summary) ==
    IF fields = <<>>
    THEN summary
    ELSE LET field == Head(fields)
             names == [i \in DOMAIN field.constraints |->
                          constraint_name(field.constraints[i].constraint_type)]
             occurrences(name) == Cardinality({i \in DOMAIN names : names[i] = name})
             seen == DOMAIN summary.constraint_types \cup {names[i] : i \in DOMAIN names}
         IN  summary_after(Tail(fields),
                [total_constraints |-> summary.total_constraints + Len(field.constraints),
                 constraint_types |->
                     [name \in seen |->
                         (IF name \in DOMAIN summary.constraint_types
                          THEN summary.constraint_types[name] ELSE 0) + occurrences(name)],
                 pda_count |-> summary.pda_count + (IF field.is_pda THEN 1 ELSE 0),
                 init_accounts |-> summary.init_accounts + occurrences("init"),
                 mutable_accounts |-> summary.mutable_accounts + occurrences("mut")])

\* generate_constraint_summary adding one to total_constraints for each field
\* that has constraints
generate_constraint_summary_per_field(infos) ==
    LET fields == flat_map_fields(infos)
        summary == summary_after(fields,
                      [total_constraints |-> 0, constraint_types |-> <<>>, pda_count |-> 0,
                       init_accounts |-> 0, mutable_accounts |-> 0])
    IN  [summary EXCEPT !.total_constraints =
            Cardinality({i \in DOMAIN fields : fields[i].constraints # <<>>})]

generate_constraint_summary(infos) ==
    summary_after(flat_map_fields(infos),
        [total_constraints |-> 0, constraint_types |-> <<>>, pda_count |-> 0,
         init_accounts |-> 0, mutable_accounts |-> 0])

count_analyzed_files ==
    Cardinality({f \in FileIds :
        /\ starts_with(vfs_file_path[f], ProjectRoot)
        /\ ends_with(vfs_file_path[f], <<".", "r", "s">>)
        /\ ~contains(vfs_file_path[f], <<"/", "t", "a", "r", "g", "e", "t", "/">>)})

\* The statistics of StructAnalyzer::analyze, without the duration.
AnalysisStatistics(found_structs, infos) ==
    [total_structs |-> Len(found_structs),
     anchor_structs |-> Len(infos),
     total_fields |-> Len(flat_map_fields(infos)),
     pda_fields |-> Len(SelectSeq(flat_map_fields(infos), LAMBDA f : f.is_pda)),
     files_analyzed |-> count_analyzed_files]

\* The span of a field: 1-based when its source resolves, all zero otherwise.
span_info_of(field) ==
    IF field.source # None
    THEN LET li == line_index(field.source[1].file)
             start_line_col == line_col(li, field.source[1].start)
             end_line_col == line_col(li, field.source[1].end)
         IN  [start_line |-> start_line_col.line + 1,
              start_column |-> start_line_col.col + 1,
              end_line |-> end_line_col.line + 1,
              end_column |-> end_line_col.col + 1]
    ELSE [start_line |-> 0, start_column |-> 0, end_line |-> 0, end_column |-> 0]

\* One iteration of the loop of extract_struct_fields.
account_field_of(field) ==
    Let(parse_constraints(field.attrs), LAMBDA constraints :
        IF constraints.panicked
        THEN Panicked
        ELSE LET is_pda == \E i \in DOMAIN constraints.value :
                              constraints.value[i].constraint_type.kind = "Seeds"
             IN  Returned([name |-> field.name,
                           constraints |-> constraints.value,
                           is_pda |-> is_pda,
                           pda_info |-> IF is_pda
                                        THEN extract_pda_info(constraints.value)
                                        ELSE None,
                           span_info |-> span_info_of(field)]))

RECURSIVE extract_struct_fields(_)
extract_struct_fields(fields) ==
    IF fields = <<>>
    THEN Returned(<<>>)
    ELSE Let(account_field_of(Head(fields)), LAMBDA first :
             IF first.panicked
             THEN Panicked
             ELSE Let(extract_struct_fields(Tail(fields)), LAMBDA rest :
                      IF rest.panicked
                      THEN Panicked
                      ELSE Returned(<<first.value>> \o rest.value)))

analyze_single_struct_inner(struct_def) ==
    IF ~has_accounts_derive(struct_def.attrs)
    THEN Returned(None)
    ELSE IF struct_def.source = None
    THEN Returned(None)
    ELSE Let(line_col(line_index(struct_def.source[1].file),
                      struct_def.source[1].start), LAMBDA lc :
         Let(extract_struct_fields(struct_def.fields), LAMBDA fields :
             IF fields.panicked
             THEN Panicked
             ELSE Returned(Some(
                    [name |-> struct_def.name,
                     file_path |-> convert_to_relative_path(
                                      vfs_file_path[struct_def.source[1].file]),
                     line_number |-> lc.line + 1,
                     column_number |-> lc.col + 1,
                     fields |-> fields.value,
                     derives |-> extract_derives(struct_def.attrs),
                     visibility |-> "pub",
                     is_anchor_accounts |-> TRUE]))))

\* Without isolation a fault leaves the record begun so far in the list.
analyze_single_struct_partial(struct_def) ==
    Let(analyze_single_struct_inner(struct_def), LAMBDA result :
        IF result.panicked
        THEN Some([name |-> struct_def.name, fields |-> <<>>])
        ELSE result.value)

\* panic::catch_unwind around the inner analysis
analyze_single_struct(struct_def) ==
    Let(analyze_single_struct_inner(struct_def), LAMBDA result :
        IF result.panicked THEN None ELSE result.value)

(***************************************************************************)
(* call_hierarchy.rs                                                       *)
(***************************************************************************)
FunctionInfo(name, file_path, line, column) ==
    [name |-> name, file_path |-> file_path, line |-> line, column |-> column]

extract_function_info(func) ==
    IF func.source # None
    THEN LET li == line_index(func.source[1].file)
             lc == line_col(li, func.source[1].start)
         IN  Some(FunctionInfo(func.name, vfs_file_path[func.source[1].file],
                               lc.line + 1, lc.col + 1))
    ELSE None

find_file_id_by_path(path) ==
    IF \E f \in FileIds : vfs_file_path[f] = path
    THEN Some(CHOOSE f \in FileIds : vfs_file_path[f] = path)
    ELSE None

\* u32::saturating_sub(1)
saturating_sub_1(n) == IF n = 0 THEN 0 ELSE n - 1

\* LineIndex::offset: None when the line is not a line of the file
line_index_offset(li, lc) ==
    IF lc.line < Cardinality(li.line_starts)
    THEN Some(lc.col + (CHOOSE st \in li.line_starts :
                            Cardinality({s2 \in li.line_starts : s2 < st}) = lc.line))
    ELSE None

\* NavigationTarget::focus_or_full_range
focus_or_full_range(target) ==
    IF target.focus_range # None THEN target.focus_range[1] ELSE target.full_range

\* create_call_relation_from_item without the check of the target range
create_call_relation_unchecked(caller_func, call_item) ==
    LET target == call_item.target
        li == line_index(target.file_id)
        target_range == focus_or_full_range(target)
        lc == line_col(li, target_range.start)
        callee_info == FunctionInfo(target.name, vfs_file_path[target.file_id],
                                    lc.line + 1, lc.col + 1)
    IN  IF call_item.ranges # <<>>
        THEN LET range_info == Head(call_item.ranges)
                 call_li == line_index(range_info.file_id)
             IN  IF range_info.start > call_li.len
                 THEN None
                 ELSE LET call_lc == line_col(call_li, range_info.start)
                      IN  Some([caller |-> caller_func, callee |-> callee_info,
                                call_site_line |-> call_lc.line + 1,
                                call_site_column |-> call_lc.col + 1])
        ELSE Some([caller |-> caller_func, callee |-> callee_info,
                   call_site_line |-> lc.line + 1,
                   call_site_column |-> lc.col + 1])

\* create_call_relation_from_item taking the call site from the last call
\* range
create_call_relation_from_last_range(caller_func, call_item) ==
    LET target == call_item.target
        li == line_index(target.file_id)
        target_range == focus_or_full_range(target)
    IN  IF target_range.start > li.len
        THEN None
        ELSE LET lc == line_col(li, target_range.start)
                 callee_info == FunctionInfo(target.name, vfs_file_path[target.file_id],
                                             lc.line + 1, lc.col + 1)
             IN  IF call_item.ranges # <<>>
                 THEN LET range_info == call_item.ranges[Len(call_item.ranges)]
                          call_li == line_index(range_info.file_id)
                      IN  IF range_info.start > call_li.len
                          THEN None
                          ELSE LET call_lc == line_col(call_li, range_info.start)
                               IN  Some([caller |-> caller_func, callee |-> callee_info,
                                         call_site_line |-> call_lc.line + 1,
                                         call_site_column |-> call_lc.col + 1])
                 ELSE Some([caller |-> caller_func, callee |-> callee_info,
                            call_site_line |-> lc.line + 1,
                            call_site_column |-> lc.col + 1])

create_call_relation_from_item(caller_func, call_item) ==
    LET target == call_item.target
        li == line_index(target.file_id)
        target_range == focus_or_full_range(target)
    IN  IF target_range.start > li.len
        THEN None
        ELSE LET lc == line_col(li, target_range.start)
                 callee_info == FunctionInfo(target.name, vfs_file_path[target.file_id],
                                             lc.line + 1, lc.col + 1)
             IN  IF call_item.ranges # <<>>
                 THEN LET range_info == Head(call_item.ranges)
                          call_li == line_index(range_info.file_id)
                      IN  IF range_info.start > call_li.len
                          THEN None
                          ELSE LET call_lc == line_col(call_li, range_info.start)
                               IN  Some([caller |-> caller_func, callee |-> callee_info,
                                         call_site_line |-> call_lc.line + 1,
                                         call_site_column |-> call_lc.col + 1])
                 ELSE Some([caller |-> caller_func, callee |-> callee_info,
                            call_site_line |-> lc.line + 1,
                            call_site_column |-> lc.col + 1])

\* Whether the loop body of analyze_call_relationships reaches the query of
\* the engine for this function.
queries_outgoing_calls(func) ==
    LET file_id == find_file_id_by_path(func.file_path)
    IN  /\ file_id # None
        /\ LET li == line_index(file_id[1])
               lc == [line |-> saturating_sub_1(func.line),
                      col |-> saturating_sub_1(func.column)]
           IN  /\ lc.line < li.len
               /\ line_index_offset(li, lc) # None

\* The inner loop of analyze_call_relationships leaving the loop at the first
\* call item that yields no relation.
RECURSIVE relations_of_items_until_none(_, _)
relations_of_items_until_none(func, items) ==
    IF items = <<>> \/ create_call_relation_from_item(func, Head(items)) = None
    THEN <<>>
    ELSE create_call_relation_from_item(func, Head(items))
         \o relations_of_items_until_none(func, Tail(items))

\* The inner loop of analyze_call_relationships unshifting every relation
\* instead of pushing it.
RECURSIVE relations_of_items_unshifted(_, _)
relations_of_items_unshifted(func, items) ==
    IF items = <<>>
    THEN <<>>
    ELSE relations_of_items_unshifted(func, Tail(items))
         \o create_call_relation_from_item(func, Head(items))

\* The inner loop of analyze_call_relationships: the relations of the call
\* items of one answer, in order.
RECURSIVE relations_of_items(_, _)
relations_of_items(func, items) ==
    IF items = <<>>
    THEN <<>>
    ELSE create_call_relation_from_item(func, Head(items))
         \o relations_of_items(func, Tail(items))

RECURSIVE items_with_relation(_, _)
items_with_relation(func, items) ==
    IF items = <<>>
    THEN <<>>
    ELSE (IF create_call_relation_from_item(func, Head(items)) # None
          THEN <<Head(items)>> ELSE <<>>)
         \o items_with_relation(func, Tail(items))

(***************************************************************************)
(* source_finder.rs                                                        *)
(***************************************************************************)
Min(a, b) == IF a <= b THEN a ELSE b

\* str::lines
lines(text) ==
    Let(split(text, <<"\n">>), LAMBDA pieces :
        IF pieces[Len(pieces)] = <<>>
        THEN SubSeq(pieces, 1, Len(pieces) - 1)
        ELSE pieces)

\* The loop of extract_symbol_source that finds the lines of the symbol.
RECURSIVE find_symbol_lines(_, _, _, _, _, _, _)
find_symbol_lines(ls, line_idx, current_offset, start_offset, end_offset, start_line, end_line) ==
    IF line_idx >= Len(ls)
    THEN [start_line |-> start_line, end_line |-> end_line]
    ELSE LET line_end == current_offset + Len(ls[line_idx + 1])
             new_start == IF current_offset <= start_offset /\ start_offset <= line_end
                          THEN line_idx
                          ELSE start_line
         IN  IF current_offset <= end_offset /\ end_offset <= line_end
             THEN [start_line |-> new_start, end_line |-> line_idx + 1]
             ELSE find_symbol_lines(ls, line_idx + 1, line_end + 1, start_offset,
                                    end_offset, new_start, end_line)

SymbolSource(source_code, start_line, end_line) ==
    [source_code |-> source_code, start_line |-> start_line, end_line |-> end_line]

extract_symbol_source(source_text, nav_target) ==
    LET start_offset == Min(nav_target.full_range.start, Len(source_text))
        end_offset == Min(nav_target.full_range.end, Len(source_text))
    IN  IF start_offset >= end_offset
        THEN Returned(SymbolSource(<<>>, 0, 0))
        ELSE Let(lines(source_text), LAMBDA ls :
             Let(find_symbol_lines(ls, 0, 0, start_offset, end_offset, 0, 0), LAMBDA found :
                 IF found.start_line < Len(ls) /\ found.end_line <= Len(ls)
                 THEN \* &lines[start_line..end_line] panics when start > end
                      IF found.start_line > found.end_line
                      THEN Panicked
                      ELSE Returned(SymbolSource(
                               join(SubSeq(ls, found.start_line + 1, found.end_line),
                                    <<"\n">>),
                               found.start_line + 1, found.end_line))
                 ELSE Returned(SymbolSource(
                          Slice(source_text, start_offset, end_offset), 1, 1))))

\* SourceFinder::get_file_path
get_file_path(file_id) == convert_to_relative_path(vfs_file_path[file_id])

\* The loop of search_symbols over the navigation targets of the engine.
RECURSIVE collect_symbol_sources(_)
collect_symbol_sources(found) ==
    IF found = <<>>
    THEN Returned(<<>>)
    ELSE Let(Head(found).nav, LAMBDA nav_target :
         Let(IF Head(found).file_text_ok
             THEN extract_symbol_source(file_text[nav_target.file_id], nav_target)
             ELSE Returned(None), LAMBDA here :
             IF here.panicked
             THEN Panicked
             ELSE Let(collect_symbol_sources(Tail(found)), LAMBDA rest :
                      IF rest.panicked
                      THEN Panicked
                      ELSE IF here.value = None
                      THEN rest
                      ELSE Returned(<<[name |-> nav_target.name,
                                       file_path |-> get_file_path(nav_target.file_id),
                                       source_code |-> here.value.source_code,
                                       start_line |-> here.value.start_line,
                                       end_line |-> here.value.end_line]>>
                                    \o rest.value))))

\* Result<Vec<_>>: Err when the engine cancelled the search
SearchOk(v) == [ok |-> TRUE, value |-> v]

SearchErr == [ok |-> FALSE, value |-> <<>>]

\* SourceFinder::search_symbols; a panic of the slicing unwinds through it
search_symbols(answer) ==
    IF answer.cancelled
    THEN Returned(SearchErr)
    ELSE Let(collect_symbol_sources(answer.found), LAMBDA results :
             IF results.panicked
             THEN Panicked
             ELSE Returned(SearchOk(results.value)))

\* SourceFinder::find_file_id_by_path: a relative path is joined to the
\* project path before the comparison
source_finder_find_file_id_by_path(file_path) ==
    LET abs_file_path == IF starts_with(file_path, <<"/">>)
                         THEN file_path
                         ELSE ProjectRoot \o <<"/">> \o file_path
        found == {f \in FileIds : vfs_file_path[f] \in {file_path, abs_file_path}}
    IN  IF found # {} THEN Some(CHOOSE f \in found : TRUE) ELSE None

\* SourceFinder::find_function_in_file: the function of that name the crates
\* declare in the file, if any
find_function_in_file(file_id, function_name, declared) ==
    IF declared
    THEN extract_function_info([name |-> function_name,
                                source |-> Some([file |-> file_id, start |-> 0, end |-> 2])])
    ELSE None

\* SourceFinder::is_external_path
is_external_path(file_path) ==
    \/ ~starts_with(file_path, ProjectRoot)
    \/ contains(file_path, <<".", "c", "a", "r", "g", "o", "/", "r", "e", "g", "i", "s", "t", "r", "y", "/">>)
    \/ contains(file_path, <<".", "c", "a", "r", "g", "o", "/", "g", "i", "t", "/">>)
    \/ contains(file_path, <<"/", "t", "a", "r", "g", "e", "t", "/">>)
    \/ contains(file_path, <<"/", "b", "u", "i", "l", "d", "/">>)
    \/ contains(file_path, <<"/", "d", "e", "p", "s", "/">>)

\* SourceFinder::create_call_relation_from_item: the relation holds the callee
\* alone, and the path that is tested is the path of the caller
source_finder_create_call_relation_from_item(caller_func, call_item) ==
    LET target == call_item.target
        li == line_index(target.file_id)
        target_range == focus_or_full_range(target)
    IN  IF target_range.start > li.len
        THEN None
        ELSE LET lc == line_col(li, target_range.start)
                 callee_info == FunctionInfo(target.name, vfs_file_path[target.file_id],
                                             lc.line + 1, lc.col + 1)
             IN  IF is_external_path(caller_func.file_path)
                 THEN None
                 ELSE Some([callee |-> callee_info])

RECURSIVE source_finder_relations_of_items(_, _)
source_finder_relations_of_items(func_info, items) ==
    IF items = <<>>
    THEN <<>>
    ELSE source_finder_create_call_relation_from_item(func_info, Head(items))
         \o source_finder_relations_of_items(func_info, Tail(items))

\* SourceFinder::analyze_function_calls
analyze_function_calls(func_info, answer) ==
    LET file_id == source_finder_find_file_id_by_path(func_info.file_path)
    IN  IF file_id = None
        THEN <<>>
        ELSE LET li == line_index(file_id[1])
                 lc == [line |-> saturating_sub_1(func_info.line),
                        col |-> saturating_sub_1(func_info.column)]
             IN  IF lc.line < li.len /\ line_index_offset(li, lc) # None
                    /\ answer.kind = "Some"
                 THEN source_finder_relations_of_items(func_info, answer.items)
                 ELSE <<>>

\* SourceFinder::get_function_calls
get_function_calls(symbol_name_, file_path, declared, answer) ==
    LET file_id == source_finder_find_file_id_by_path(file_path)
    IN  IF file_id = None
        THEN None
        ELSE LET func_info == find_function_in_file(file_id[1], symbol_name_, declared)
             IN  IF func_info = None
                 THEN None
                 ELSE Some(analyze_function_calls(func_info[1], answer))

(***************************************************************************)
(* symbol_finder.rs                                                        *)
(***************************************************************************)
convert_navigation_target(target) ==
    [name |-> target.name,
     kind |-> IF target.kind = None THEN "unknown" ELSE target.kind[1],
     file_path |-> vfs_file_path[target.file_id],
     full_range |-> <<target.full_range.start, target.full_range.end>>,
     focus_range |-> IF target.focus_range = None
                     THEN None
                     ELSE Some(<<target.focus_range[1].start, target.focus_range[1].end>>)]

\* find_functions (kind "function") and find_structs (kind "struct")
find_symbols_of_kind(answer, name, kind) ==
    IF answer.cancelled
    THEN SearchErr
    ELSE LET of_kind == SelectSeq(answer.found,
                            LAMBDA e : unwrap_or(e.nav.kind, "module") = kind)
             named == SelectSeq(of_kind, LAMBDA e : e.nav.name = name)
         IN  SearchOk([i \in DOMAIN named |-> convert_navigation_target(named[i].nav)])

find_functions(answer, function_name) ==
    find_symbols_of_kind(answer, function_name, "function")

find_structs(answer, struct_name) ==
    find_symbols_of_kind(answer, struct_name, "struct")

\* InternalSymbolFinder::extract_symbol_content: Err on an unknown file, an
\* unreadable text or an invalid range
extract_symbol_content(symbol, file_text_ok) ==
    LET file_id == find_file_id_by_path(symbol.file_path)
    IN  IF file_id = None \/ ~file_text_ok
        THEN SearchErr
        ELSE LET text == file_text[file_id[1]]
                 start_offset == symbol.full_range[1]
                 end_offset == symbol.full_range[2]
             IN  IF \/ start_offset >= Len(text)
                    \/ end_offset > Len(text)
                    \/ start_offset > end_offset
                 THEN SearchErr
                 ELSE SearchOk([symbol |-> symbol,
                                source_code |-> Slice(text, start_offset, end_offset)])

(***************************************************************************)
(* Payloads handed to the parser: the clauses of one #[account(...)]       *)
(* attribute, rendered as `(clause, clause, ...)`.                         *)
(***************************************************************************)
Clause ==
    [Init |->
        <<"i", "n", "i", "t">>,
     Payer |->
        <<"p", "a", "y", "e", "r", " ", "=", " ", "u">>,
     Space |->
        <<"s", "p", "a", "c", "e", " ", "=", " ", "8">>,
     Mut |->
        <<"m", "u", "t">>,
     Seeds |->
        <<"s", "e", "e", "d", "s", " ", "=", " ", "[", "b", "\"", "p", "\"", ",", " ", "k", "]">>,
     SeedsLe |->
        <<"s", "e", "e", "d", "s", " ", "=", " ", "[", "i", ".", "t", "o", "_", "l", "e", "_", "b", "y", "t", "e", "s", "(", ")", ".", "a", "s", "_", "r", "e", "f", "(", ")", "]">>,
     SeedsComma |->
        <<"s", "e", "e", "d", "s", " ", "=", " ", "[", "b", "\"", "a", ",", "b", "\"", "]">>,
     SeedsEmpty |->
        <<"s", "e", "e", "d", "s", " ", "=", " ", "[", "]">>,
     SeedsBare |->
        <<"s", "e", "e", "d", "s", " ", "=", " ", "k">>,
     Bump |->
        <<"b", "u", "m", "p">>,
     BumpEq |->
        <<"b", "u", "m", "p", " ", "=", " ", "n">>,
     Mint |->
        <<"a", "s", "s", "o", "c", "i", "a", "t", "e", "d", "_", "t", "o", "k", "e", "n", ":", ":", "m", "i", "n", "t", " ", "=", " ", "m">>,
     Authority |->
        <<"a", "s", "s", "o", "c", "i", "a", "t", "e", "d", "_", "t", "o", "k", "e", "n", ":", ":", "a", "u", "t", "h", "o", "r", "i", "t", "y", " ", "=", " ", "a">>,
     HasOne |->
        <<"h", "a", "s", "_", "o", "n", "e", " ", "=", " ", "o">>,
     HasOneInitializer |->
        <<"h", "a", "s", "_", "o", "n", "e", " ", "=", " ", "i", "n", "i", "t", "i", "a", "l", "i", "z", "e", "r">>]

\* The clauses whose keys the recogniser knows, in well-formed spelling.
KeyClauses ==
    {Clause.Init, Clause.Payer, Clause.Space, Clause.Mut, Clause.Seeds, Clause.SeedsLe, Clause.Bump, Clause.BumpEq,
     Clause.Mint, Clause.Authority}

\* The clauses whose key is none of init, mut, seeds and associated_token.
UnrecognizedClauses == {Clause.HasOne, Clause.HasOneInitializer}

Clauses ==
    KeyClauses \cup {Clause.SeedsComma, Clause.SeedsEmpty, Clause.SeedsBare}
        \cup UnrecognizedClauses

SeedsClauses == {Clause.Seeds, Clause.SeedsLe, Clause.SeedsComma, Clause.SeedsEmpty, Clause.SeedsBare}

BumpClauses == {Clause.Bump, Clause.BumpEq}

Range(f) == {f[i] : i \in DOMAIN f}

\* Attribute clause lists: distinct clauses, at most one seeds clause and one
\* bump clause per attribute.
ClauseLists ==
    {cl \in UNION {[1..n -> Clauses] : n \in 0..MaxClauses} :
        /\ \A i, j \in DOMAIN cl : i # j => cl[i] # cl[j]
        /\ Cardinality(Range(cl) \cap SeedsClauses) <= 1
        /\ Cardinality(Range(cl) \cap BumpClauses) <= 1}

Render(cl) == <<"(">> \o join(cl, <<",", " ">>) \o <<")">>

Orderings(cl) ==
    {q \in [DOMAIN cl -> Range(cl)] : Range(q) = Range(cl)}

(***************************************************************************)
(* The seed components the relationship analyzer is exercised on.          *)
(***************************************************************************)
SeedUniverse ==
    {StringLiteral(<<"a">>), StringLiteral(<<"b">>),
     Variable(<<"a">>, None), Variable(<<"a">>, Some(ToLeBytesAsRef)),
     Variable(<<"b">>, None)}

SeedLists == UNION {[1..n -> SeedUniverse] : n \in 0..MaxSeeds}

(***************************************************************************)
(* The structs the engine reports to the struct analyzer.                  *)
(***************************************************************************)
\* the derive lists of the struct declarations: the marker Accounts; other
\* markers; no marker Accounts, but a marker whose name contains it
Derive ==
    [Accounts |->
        <<"(", "A", "c", "c", "o", "u", "n", "t", "s", ")">>,
     CloneDebug |->
        <<"(", "C", "l", "o", "n", "e", ",", " ", "D", "e", "b", "u", "g", ")">>,
     AccountsExit |->
        <<"(", "A", "c", "c", "o", "u", "n", "t", "s", "E", "x", "i", "t", ",", " ", "C", "l", "o", "n", "e", ")">>]

\* The payloads of the #[account(...)] attributes of the fields. CommaInLiteral
\* holds a byte-string literal with a comma: its second piece is `b"`.
Payload ==
    [InitMut |->
        <<"(", "i", "n", "i", "t", ",", " ", "p", "a", "y", "e", "r", " ", "=", " ", "u", ",", " ", "s", "p", "a", "c", "e", " ", "=", " ", "8", ",", " ", "m", "u", "t", ")">>,
     PoolUser |->
        <<"(", "s", "e", "e", "d", "s", " ", "=", " ", "[", "b", "\"", "p", "o", "o", "l", "\"",
         ",", " ", "u", "s", "e", "r", "]", ")">>,
     UserUser |->
        <<"(", "s", "e", "e", "d", "s", " ", "=", " ", "[", "u", "s", "e", "r", ",", " ", "u",
         "s", "e", "r", "]", ",", " ", "b", "u", "m", "p", ")">>,
     Vault |->
        <<"(", "s", "e", "e", "d", "s", " ", "=", " ", "[", "b", "\"", "v", "a", "u", "l", "t",
         "\"", "]", ")">>,
     Mut |->
        <<"(", "m", "u", "t", ")">>,
     CommaInLiteral |->
        <<"(", "s", "e", "e", "d", "s", " ", "=", " ", "[", "b", "\"", "a", ",", "b", "\"", "]",
         ")">>,
     Global |->
        <<"(", "s", "e", "e", "d", "s", " ", "=", " ", "[", "b", "\"", "g", "l", "o", "b", "a",
         "l", "\"", "]", ")">>,
     ExplicitBump |->
        <<"(", "s", "e", "e", "d", "s", " ", "=", " ", "[", "k", "]", ",", " ", "b", "u", "m",
         "p", " ", "=", " ", "n", ")">>]

StructNames == <<"Initialize", "Withdraw", "Close">>

FieldNames == <<"vault", "pool", "authority", "mint">>

SourceAt(file, start, end) == Some([file |-> file, start |-> start, end |-> end])

\* attributes and source of a field, as the engine resolves them
FieldShapes ==
    {[attrs |-> <<Attr("account", Payload.PoolUser)>>, source |-> SourceAt("lib", 4, 7)],
     [attrs |-> <<Attr("account", Payload.UserUser)>>, source |-> SourceAt("utils", 2, 3)],
     [attrs |-> <<Attr("account", Payload.Vault)>>, source |-> None],
     [attrs |-> <<Attr("account", Payload.Mut)>>, source |-> SourceAt("lib", 0, 2)]}

\* a field whose payload makes parse_seeds panic, a field with two
\* constraints, and a field without #[account] attribute
FieldShape ==
    [Faulting |->
        [attrs |-> <<Attr("account", Payload.CommaInLiteral)>>,
         source |-> SourceAt("lib", 0, 2)],
     InitMut |->
        [attrs |-> <<Attr("account", Payload.InitMut)>>, source |-> SourceAt("lib", 0, 2)],
     Plain |->
        [attrs |-> <<>>, source |-> SourceAt("lib", 4, 7)]]

\* Attributes and source of a struct: the derive, the original range of the
\* declaration, and whether the declaration lies in a macro expansion.
StructShape(derive, source, macro_file) ==
    [attrs |-> <<Attr("derive", derive)>>, source |-> source, macro_file |-> macro_file]

StructShapes ==
    {StructShape(Derive.Accounts, SourceAt("lib", 3, 7), FALSE),
     StructShape(Derive.Accounts, None, FALSE),
     StructShape(Derive.CloneDebug, SourceAt("utils", 0, 3), FALSE),
     StructShape(Derive.Accounts, SourceAt("outside", 3, 7), FALSE),
     StructShape(Derive.Accounts, SourceAt("registry", 3, 7), FALSE),
     StructShape(Derive.Accounts, SourceAt("git", 3, 7), FALSE),
     StructShape(Derive.Accounts, SourceAt("target", 3, 7), FALSE),
     StructShape(Derive.Accounts, SourceAt("registry", 0, 2), TRUE),
     StructShape(Derive.AccountsExit, SourceAt("lib", 3, 7), FALSE)}

\* The fields of a struct. The analysis of a struct ends at the first field
\* that faults and drops the fields read before it, so a faulting field is
\* the last field read and at most one field precedes it. The field with two
\* constraints and the field without attribute come together, first in their
\* struct.
FieldLists ==
    {[j \in DOMAIN sh |-> [name |-> FieldNames[j], attrs |-> sh[j].attrs,
                           source |-> sh[j].source]] :
        sh \in UNION {[1..n -> FieldShapes] : n \in 0..MaxFields}
                \cup {<<FieldShape.Faulting>>}
                \cup {<<first, FieldShape.Faulting>> : first \in FieldShapes}
                \cup {<<FieldShape.InitMut, FieldShape.Plain>>}
                \cup {<<FieldShape.InitMut, FieldShape.Plain, last>> : last \in FieldShapes}}

derives_accounts_exit(d) == d.attrs = <<Attr("derive", Derive.AccountsExit)>>

\* The i-th struct declaration of the workspace. The fields of a struct are
\* read only after the filter, the derive and the source of the struct are
\* accepted, so a struct that is skipped comes with no field; a struct of a
\* macro expansion comes with at most one, a struct that derives AccountsExit
\* with none.
StructDefs ==
    [i \in 1..MaxStructs |->
        {d \in {[name |-> StructNames[i], attrs |-> sh.attrs, source |-> sh.source,
                 macro_file |-> sh.macro_file, fields |-> fl] :
                    sh \in StructShapes, fl \in FieldLists} :
            /\ (is_external_struct(d) \/ ~has_accounts_derive(d.attrs) \/ d.source = None)
                  => d.fields = <<>>
            /\ d.macro_file => Len(d.fields) <= 1
            /\ derives_accounts_exit(d) => d.fields = <<>>}]

\* analyze_single_struct tabulated over the structs the engine can report
analyze_single_struct_of ==
    [d \in UNION {StructDefs[i] : i \in 1..MaxStructs} |-> analyze_single_struct(d)]

\* analyze_single_struct_inner tabulated in the same way
analyze_single_struct_inner_of ==
    [d \in UNION {StructDefs[i] : i \in 1..MaxStructs} |-> analyze_single_struct_inner(d)]

(***************************************************************************)
(* Idle values of the variables a specification does not use.              *)
(***************************************************************************)
ParserIdle ==
    /\ attr_clauses = <<>>
    /\ token_text = <<>>
    /\ parsed = Returned(<<>>)
    /\ parser_pc = "idle"

SharedIdle ==
    /\ seeds1 = <<>>
    /\ seeds2 = <<>>
    /\ shared = <<>>
    /\ shared_swapped = <<>>
    /\ shared_pc = {}

AnalyzerIdle ==
    /\ declarations = <<>>
    /\ structs = <<>>
    /\ struct_idx = 0
    /\ account_structs = <<>>
    /\ pda_relationships = <<>>
    /\ constraint_summary = None
    /\ statistics = None
    /\ analyzer_pc = "idle"

CallsIdle ==
    /\ functions = <<>>
    /\ func_idx = 0
    /\ call_relations = <<>>
    /\ edge_items = <<>>
    /\ outgoing_calls = <<>>
    /\ calls_reported = 0
    /\ calls_pc = "idle"

ModulesIdle ==
    /\ module_children = <<>>
    /\ crate_roots = {}
    /\ visit_queue = <<>>
    /\ visited_modules = {}
    /\ scanned_modules = <<>>
    /\ modules_pc = "idle"

SourceIdle ==
    /\ file_source_text = <<>>
    /\ symbol_range = [start |-> 0, end |-> 0]
    /\ symbol_source = Returned(<<>>)
    /\ source_pc = "idle"

FieldIdle ==
    /\ field_attrs = <<>>
    /\ field_outcome = Returned(<<>>)
    /\ field_pc = "idle"

SearchIdle ==
    /\ search_cmd = "none"
    /\ symbol_name = ""
    /\ symbol_type = ""
    /\ search_cancelled = FALSE
    /\ search_results = <<>>
    /\ symbol_idx = 0
    /\ outputs = <<>>
    /\ listing_reported = 0
    /\ run_result = "running"
    /\ search_pc = "idle"

(***************************************************************************)
(* SpecParser: parse_constraint_tokens applied to one payload.             *)
(***************************************************************************)
InitParser ==
    /\ attr_clauses \in ClauseLists
    /\ token_text = Render(attr_clauses)
    /\ parsed = Returned(<<>>)
    /\ parser_pc = "ready"
    /\ SharedIdle
    /\ AnalyzerIdle
    /\ CallsIdle
    /\ SearchIdle
    /\ FieldIdle
    /\ ModulesIdle
    /\ SourceIdle

ParseConstraintTokens ==
    /\ parser_pc = "ready"
    /\ parsed' = parse_constraint_tokens(token_text)
    /\ parser_pc' = "done"
    /\ UNCHANGED <<attr_clauses, token_text, shared_vars, analyzer_vars, calls_vars, search_vars,
            field_vars, modules_vars, source_vars>>

NextParser == ParseConstraintTokens

SpecParser == InitParser /\ [][NextParser]_vars

(***************************************************************************)
(* SpecShared: find_shared_seeds applied to two seed lists, both ways.     *)
(***************************************************************************)
InitShared ==
    /\ seeds1 \in SeedLists
    /\ seeds2 \in SeedLists
    /\ shared = <<>>
    /\ shared_swapped = <<>>
    /\ shared_pc = {}
    /\ ParserIdle
    /\ AnalyzerIdle
    /\ CallsIdle
    /\ SearchIdle
    /\ FieldIdle
    /\ ModulesIdle
    /\ SourceIdle

FindSharedSeeds ==
    /\ "forward" \notin shared_pc
    /\ shared' = find_shared_seeds(seeds1, seeds2)
    /\ shared_pc' = shared_pc \cup {"forward"}
    /\ UNCHANGED <<seeds1, seeds2, shared_swapped, parser_vars, analyzer_vars, calls_vars, search_vars,
            field_vars, modules_vars, source_vars>>

FindSharedSeedsSwapped ==
    /\ "swapped" \notin shared_pc
    /\ shared_swapped' = find_shared_seeds(seeds2, seeds1)
    /\ shared_pc' = shared_pc \cup {"swapped"}
    /\ UNCHANGED <<seeds1, seeds2, shared, parser_vars, analyzer_vars, calls_vars, search_vars,
            field_vars, modules_vars, source_vars>>

NextShared == FindSharedSeeds \/ FindSharedSeedsSwapped

SpecShared == InitShared /\ [][NextShared]_vars

(***************************************************************************)
(* SpecAnalyzer: StructAnalyzer::analyze over the extracted structs.       *)
(***************************************************************************)
InitAnalyzer ==
    /\ declarations = <<>>
    /\ structs = <<>>
    /\ struct_idx = 0
    /\ account_structs = <<>>
    /\ pda_relationships = <<>>
    /\ constraint_summary = None
    /\ statistics = None
    /\ analyzer_pc = "extract"
    /\ ParserIdle
    /\ SharedIdle
    /\ CallsIdle
    /\ SearchIdle
    /\ FieldIdle
    /\ ModulesIdle
    /\ SourceIdle

\* extract_all_structs meets one more struct declaration and pushes it
\* unless is_external_struct answers true. The structs that derive
\* AccountsExit come in workspaces of their own.
ExtractStruct ==
    /\ analyzer_pc = "extract"
    /\ Len(declarations) < MaxStructs
    /\ \E d \in StructDefs[Len(declarations) + 1] :
          LET count[k \in 0..Len(structs)] ==
                  IF k = 0 THEN 0 ELSE count[k - 1] + Len(structs[k].fields)
          IN  /\ count[Len(structs)] + Len(d.fields) <= MaxFields
              /\ \A k \in DOMAIN declarations :
                    derives_accounts_exit(declarations[k]) = derives_accounts_exit(d)
              /\ declarations' = Append(declarations, d)
              /\ structs' = IF is_external_struct(d) THEN structs ELSE Append(structs, d)
    /\ UNCHANGED <<struct_idx, account_structs, pda_relationships, analyzer_pc,
                   constraint_summary, statistics,
                   parser_vars, shared_vars, calls_vars, search_vars, field_vars, modules_vars,
                   source_vars>>

\* The work-list is empty: extract_all_structs returns Ok(structs).
ExtractAllStructsReturn ==
    /\ analyzer_pc = "extract"
    /\ analyzer_pc' = "structs"
    /\ UNCHANGED <<declarations, structs, struct_idx, account_structs, pda_relationships,
                   constraint_summary, statistics,
                   parser_vars, shared_vars, calls_vars, search_vars, field_vars, modules_vars,
                   source_vars>>

\* One iteration of the loop of analyze_account_structs.
AnalyzeSingleStruct ==
    /\ analyzer_pc = "structs"
    /\ struct_idx < Len(structs)
    /\ account_structs' =
          account_structs \o analyze_single_struct_of[structs[struct_idx + 1]]
    /\ struct_idx' = struct_idx + 1
    /\ UNCHANGED <<declarations, structs, pda_relationships, analyzer_pc,
                   constraint_summary, statistics,
                   parser_vars, shared_vars, calls_vars, search_vars, field_vars, modules_vars,
                   source_vars>>

\* The loop is exhausted: analyze_account_structs returns Ok(account_structs).
AnalyzeAccountStructsReturn ==
    /\ analyzer_pc = "structs"
    /\ struct_idx = Len(structs)
    /\ analyzer_pc' = "relationships"
    /\ UNCHANGED <<declarations, structs, struct_idx, account_structs, pda_relationships,
                   constraint_summary, statistics,
                   parser_vars, shared_vars, calls_vars, search_vars, field_vars, modules_vars,
                   source_vars>>

\* The rest of StructAnalyzer::analyze: the relationships, the constraint
\* summary and the statistics of the result.
AnalyzePdaRelationships ==
    /\ analyzer_pc = "relationships"
    /\ pda_relationships' = analyze_relationships(account_structs)
    /\ constraint_summary' = Some(generate_constraint_summary(account_structs))
    /\ statistics' = Some(AnalysisStatistics(structs, account_structs))
    /\ analyzer_pc' = "done"
    /\ UNCHANGED <<declarations, structs, struct_idx, account_structs,
                   parser_vars, shared_vars, calls_vars, search_vars, field_vars, modules_vars,
                   source_vars>>

NextAnalyzer ==
    \/ ExtractStruct
    \/ ExtractAllStructsReturn
    \/ AnalyzeSingleStruct
    \/ AnalyzeAccountStructsReturn
    \/ AnalyzePdaRelationships

SpecAnalyzer == InitAnalyzer /\ [][NextAnalyzer]_vars

(***************************************************************************)
(* SpecCalls: extract_all_functions, then analyze_call_relationships.      *)
(***************************************************************************)
TextRange(start, end) == [start |-> start, end |-> end]

\* the function declarations the engine reports, with their resolved source
FunctionDefs ==
    {[name |-> "add_numbers", source |-> SourceAt("lib", 0, 2)],
     [name |-> "complex_operation", source |-> SourceAt("lib", 4, 7)],
     [name |-> "calculate_square", source |-> SourceAt("utils", 2, 3)],
     [name |-> "expanded", source |-> None],
     [name |-> "serialize", source |-> SourceAt("registry", 0, 2)]}

NavTarget(file_id, name, full_range, focus_range) ==
    [file_id |-> file_id, name |-> name, full_range |-> full_range,
     focus_range |-> focus_range]

FileRange(file_id, start) == [file_id |-> file_id, start |-> start]

\* the call items the engine can report for a function
CallItems ==
    {[target |-> NavTarget("utils", "calculate_square", TextRange(0, 3), None),
      ranges |-> <<FileRange("lib", 5)>>],
     [target |-> NavTarget("utils", "calculate_cube", TextRange(0, 3),
                           Some(TextRange(2, 3))),
      ranges |-> <<>>],
     [target |-> NavTarget("utils", "at_end", TextRange(3, 3), None),
      ranges |-> <<FileRange("lib", 1), FileRange("lib", 5)>>],
     [target |-> NavTarget("utils", "stale", TextRange(0, 3), Some(TextRange(4, 5))),
      ranges |-> <<FileRange("lib", 1)>>],
     [target |-> NavTarget("lib", "complex_operation", TextRange(4, 7), None),
      ranges |-> <<FileRange("utils", 0)>>],
     [target |-> NavTarget("utils", "calculate_square", TextRange(0, 3), None),
      ranges |-> <<FileRange("lib", 8)>>]}

\* analysis.outgoing_calls: Err(Cancelled), Ok(None) or Ok(Some(items))
OutgoingCallsAnswers(max_items) ==
    {[kind |-> "Cancelled", items |-> <<>>], [kind |-> "None", items |-> <<>>]}
    \cup {[kind |-> "Some", items |-> items] :
             items \in UNION {[1..n -> CallItems] : n \in 0..max_items}}

InitCalls ==
    /\ functions = <<>>
    /\ func_idx = 0
    /\ call_relations = <<>>
    /\ edge_items = <<>>
    /\ outgoing_calls = <<>>
    /\ calls_reported = 0
    /\ calls_pc = "extract"
    /\ ParserIdle
    /\ SharedIdle
    /\ AnalyzerIdle
    /\ SearchIdle
    /\ FieldIdle
    /\ ModulesIdle
    /\ SourceIdle

\* extract_all_functions meets one more function declaration.
ExtractFunction ==
    /\ calls_pc = "extract"
    /\ Len(functions) < MaxFunctions
    /\ \E func \in FunctionDefs : functions' = functions \o extract_function_info(func)
    /\ UNCHANGED <<func_idx, call_relations, edge_items, outgoing_calls, calls_reported,
                   calls_pc,
                   parser_vars, shared_vars, analyzer_vars, search_vars, field_vars,
                   modules_vars, source_vars>>

\* The work-list is empty: extract_all_functions returns Ok(functions).
ExtractAllFunctionsReturn ==
    /\ calls_pc = "extract"
    /\ calls_pc' = "calls"
    /\ UNCHANGED <<functions, func_idx, call_relations, edge_items, outgoing_calls,
                   calls_reported,
                   parser_vars, shared_vars, analyzer_vars, search_vars, field_vars,
                   modules_vars, source_vars>>

\* One iteration of the loop of analyze_call_relationships.
AnalyzeFunctionCalls ==
    /\ calls_pc = "calls"
    /\ func_idx < Len(functions)
    /\ LET func == functions[func_idx + 1]
       IN  \E answer \in OutgoingCallsAnswers(MaxCalls - calls_reported) :
              LET items == IF queries_outgoing_calls(func) /\ answer.kind = "Some"
                           THEN answer.items ELSE <<>>
              IN  /\ call_relations' = call_relations \o relations_of_items(func, items)
                  /\ edge_items' = edge_items \o items_with_relation(func, items)
                  /\ outgoing_calls' = Append(outgoing_calls, items)
                  /\ calls_reported' = calls_reported + Len(items)
    /\ func_idx' = func_idx + 1
    /\ UNCHANGED <<functions, calls_pc, parser_vars, shared_vars, analyzer_vars, search_vars,
            field_vars, modules_vars, source_vars>>

\* The loop is exhausted: analyze_call_relationships returns Ok(call_relations).
AnalyzeCallRelationshipsReturn ==
    /\ calls_pc = "calls"
    /\ func_idx = Len(functions)
    /\ calls_pc' = "done"
    /\ UNCHANGED <<functions, func_idx, call_relations, edge_items, outgoing_calls,
                   calls_reported,
                   parser_vars, shared_vars, analyzer_vars, search_vars, field_vars,
                   modules_vars, source_vars>>

NextCalls ==
    \/ ExtractFunction
    \/ ExtractAllFunctionsReturn
    \/ AnalyzeFunctionCalls
    \/ AnalyzeCallRelationshipsReturn

SpecCalls == InitCalls /\ [][NextCalls]_vars

(***************************************************************************)
(* SpecSearch: one run of the source finder or of the symbol finder.       *)
(***************************************************************************)
SymbolTarget(file_id, name, kind, full_range) ==
    [file_id |-> file_id, name |-> name, kind |-> kind, full_range |-> full_range,
     focus_range |-> None]

\* the symbols of the snapshot
SymbolTargets ==
    {SymbolTarget("lib", "add", Some("function"), TextRange(0, 2)),
     SymbolTarget("lib", "add_numbers", Some("function"), TextRange(4, 7)),
     SymbolTarget("utils", "add", None, TextRange(2, 3)),
     SymbolTarget("lib", "add", Some("function"), TextRange(5, 9)),
     SymbolTarget("utils", "add", Some("struct"), TextRange(3, 3)),
     SymbolTarget("utils", "Pool", Some("struct"), TextRange(0, 3)),
     SymbolTarget("lib", "PoolState", Some("struct"), TextRange(0, 7)),
     SymbolTarget("lib", "Pool", Some("function"), TextRange(4, 6)),
     SymbolTarget("registry", "add", Some("function"), TextRange(0, 2))}

SymbolNames == {"add", "Pool"}

\* the names the fuzzy search of the engine matches with a query
FuzzyMatches(query) ==
    IF query = "add" THEN {"add", "add_numbers"} ELSE {"Pool", "PoolState"}

\* analysis.symbol_search: cancelled, or the candidates in rank order, each
\* with whether analysis.file_text then answers for its file
SymbolSearchAnswers(query) ==
    LET entries == {[nav |-> t, file_text_ok |-> ok] :
                       t \in {t2 \in SymbolTargets : t2.name \in FuzzyMatches(query)},
                       ok \in BOOLEAN}
    IN  {[cancelled |-> TRUE, found |-> <<>>]}
        \cup {[cancelled |-> FALSE, found |-> found] :
                 found \in UNION {[1..n -> entries] : n \in 0..MaxResults}}

\* the call items the engine can report to the source finder
ListingItems ==
    {[target |-> NavTarget("utils", "calculate_square", TextRange(0, 3), None),
      ranges |-> <<FileRange("lib", 5)>>],
     [target |-> NavTarget("registry", "serialize", TextRange(0, 2), None),
      ranges |-> <<FileRange("lib", 1)>>],
     [target |-> NavTarget("utils", "stale", TextRange(0, 3), Some(TextRange(4, 5))),
      ranges |-> <<FileRange("lib", 1)>>]}

\* analysis.outgoing_calls: Err(Cancelled), Ok(None) or Ok(Some(items))
ListingAnswers(max_items) ==
    {[kind |-> "Cancelled", items |-> <<>>], [kind |-> "None", items |-> <<>>]}
    \cup {[kind |-> "Some", items |-> items] :
             items \in UNION {[1..n -> ListingItems] : n \in 0..max_items}}

InitSearch ==
    /\ search_cmd \in {"source_finder", "symbol_finder"}
    /\ symbol_name \in SymbolNames
    /\ symbol_type \in IF search_cmd = "symbol_finder"
                       THEN {"function", "struct", "enum"}
                       ELSE {""}
    /\ search_cancelled = FALSE
    /\ search_results = <<>>
    /\ symbol_idx = 0
    /\ outputs = <<>>
    /\ listing_reported = 0
    /\ run_result = "running"
    /\ search_pc = "search"
    /\ ParserIdle
    /\ SharedIdle
    /\ AnalyzerIdle
    /\ CallsIdle
    /\ FieldIdle
    /\ ModulesIdle
    /\ SourceIdle

\* SourceFinder::run up to the loop over the results: search_symbols(..)?
SourceFinderSearch ==
    /\ search_cmd = "source_finder"
    /\ search_pc = "search"
    /\ \E answer \in SymbolSearchAnswers(symbol_name) :
          \E r \in {search_symbols(answer)} :
              /\ search_cancelled' = answer.cancelled
              /\ search_results' = IF r.panicked THEN <<>> ELSE r.value.value
              /\ run_result' = IF r.panicked THEN "panic"
                               ELSE IF ~r.value.ok THEN "err"
                               ELSE IF r.value.value = <<>> THEN "ok"
                               ELSE "running"
              /\ search_pc' = IF r.panicked \/ ~r.value.ok \/ r.value.value = <<>>
                              THEN "done"
                              ELSE "process"
    /\ UNCHANGED <<search_cmd, symbol_name, symbol_type, symbol_idx, outputs,
                   listing_reported,
                   parser_vars, shared_vars, analyzer_vars, calls_vars, field_vars,
                   modules_vars, source_vars>>

\* One iteration of the loop of SourceFinder::run over the results: the
\* result is printed, then the listing of get_function_calls when there is one.
SourceFinderPrint ==
    /\ search_cmd = "source_finder"
    /\ search_pc = "process"
    /\ symbol_idx < Len(search_results)
    /\ LET result == search_results[symbol_idx + 1]
       IN  \E declared \in BOOLEAN :
              \E answer \in ListingAnswers(MaxCalls - listing_reported) :
                 \E calls \in {get_function_calls(result.name, result.file_path,
                                                  declared, answer)} :
                    /\ outputs' = Append(outputs, [result |-> result, calls |-> calls])
                    /\ listing_reported' = listing_reported + Len(answer.items)
    /\ symbol_idx' = symbol_idx + 1
    /\ UNCHANGED <<search_cmd, symbol_name, symbol_type, search_cancelled,
                   search_results, run_result, search_pc,
                   parser_vars, shared_vars, analyzer_vars, calls_vars, field_vars,
                   modules_vars, source_vars>>

\* SymbolFinder::process_symbols up to the loop over the found symbols.
SymbolFinderFind ==
    /\ search_cmd = "symbol_finder"
    /\ search_pc = "search"
    /\ \E answer \in SymbolSearchAnswers(symbol_name) :
          LET supported == symbol_type \in {"function", "struct"}
              r == IF symbol_type = "function"
                   THEN find_functions(answer, symbol_name)
                   ELSE IF symbol_type = "struct"
                   THEN find_structs(answer, symbol_name)
                   ELSE SearchErr
          IN  /\ search_cancelled' = (supported /\ answer.cancelled)
              /\ search_results' = r.value
              /\ run_result' = IF ~r.ok THEN "err"
                               ELSE IF r.value = <<>> THEN "ok"
                               ELSE "running"
              /\ search_pc' = IF ~r.ok \/ r.value = <<>> THEN "done" ELSE "process"
    /\ UNCHANGED <<search_cmd, symbol_name, symbol_type, symbol_idx, outputs,
                   listing_reported,
                   parser_vars, shared_vars, analyzer_vars, calls_vars, field_vars,
                   modules_vars, source_vars>>

\* One iteration of the loop of process_symbols: extract, parse, output.
SymbolFinderProcess ==
    /\ search_cmd = "symbol_finder"
    /\ search_pc = "process"
    /\ symbol_idx < Len(search_results)
    /\ \E file_text_ok \in BOOLEAN :
          LET content == extract_symbol_content(search_results[symbol_idx + 1],
                                                file_text_ok)
          IN  IF content.ok
              THEN /\ outputs' = Append(outputs, content.value)
                   /\ symbol_idx' = symbol_idx + 1
                   /\ UNCHANGED <<run_result, search_pc>>
              ELSE /\ run_result' = "err"
                   /\ search_pc' = "done"
                   /\ UNCHANGED <<outputs, symbol_idx>>
    /\ UNCHANGED <<search_cmd, symbol_name, symbol_type, search_cancelled,
                   search_results, listing_reported,
                   parser_vars, shared_vars, analyzer_vars, calls_vars,
                   field_vars, modules_vars, source_vars>>

\* The loop over the symbols is exhausted: the run returns Ok(()).
SearchRunReturn ==
    /\ search_pc = "process"
    /\ symbol_idx = Len(search_results)
    /\ run_result' = "ok"
    /\ search_pc' = "done"
    /\ UNCHANGED <<search_cmd, symbol_name, symbol_type, search_cancelled,
                   search_results, symbol_idx, outputs, listing_reported,
                   parser_vars, shared_vars, analyzer_vars, calls_vars, field_vars,
                   modules_vars, source_vars>>

NextSearch ==
    \/ SourceFinderSearch
    \/ SourceFinderPrint
    \/ SymbolFinderFind
    \/ SymbolFinderProcess
    \/ SearchRunReturn

SpecSearch == InitSearch /\ [][NextSearch]_vars

(***************************************************************************)
(* SpecField: one iteration of the loop of extract_struct_fields, on a     *)
(* field with up to MaxAttrs #[account(...)] attributes.                   *)
(***************************************************************************)
FieldPayloads ==
    {Payload.PoolUser, Payload.UserUser, Payload.Vault, Payload.Mut, Payload.CommaInLiteral,
     Payload.Global, Payload.ExplicitBump}

FieldAttrLists ==
    {[j \in DOMAIN payloads |-> Attr("account", payloads[j])] :
        payloads \in UNION {[1..n -> FieldPayloads] : n \in 0..MaxAttrs}}

InitField ==
    /\ field_attrs \in FieldAttrLists
    /\ field_outcome = Returned(<<>>)
    /\ field_pc = "ready"
    /\ ParserIdle
    /\ SharedIdle
    /\ AnalyzerIdle
    /\ CallsIdle
    /\ SearchIdle
    /\ ModulesIdle
    /\ SourceIdle

\* The body of the loop: parse the constraints, decide is_pda, extract the
\* PDA information, resolve the span, push the AccountField.
ExtractStructField ==
    /\ field_pc = "ready"
    /\ field_outcome' = account_field_of([name |-> FieldNames[1], attrs |-> field_attrs,
                                          source |-> SourceAt("lib", 0, 2)])
    /\ field_pc' = "done"
    /\ UNCHANGED <<field_attrs, parser_vars, shared_vars, analyzer_vars, calls_vars,
                   search_vars, modules_vars, source_vars>>

NextField == ExtractStructField

SpecField == InitField /\ [][NextField]_vars

(***************************************************************************)
(* SpecSource: extract_symbol_source on any text and any full range.       *)
(***************************************************************************)
\* texts of letters and line ends
SourceTexts == UNION {[1..n -> {"a", "\n"}] : n \in 0..MaxTextLen}

InitSource ==
    /\ file_source_text \in SourceTexts
    /\ symbol_range \in [start : 0..(MaxTextLen + 1), end : 0..(MaxTextLen + 1)]
    /\ symbol_range.start <= symbol_range.end
    /\ symbol_source = Returned(<<>>)
    /\ source_pc = "ready"
    /\ ParserIdle
    /\ SharedIdle
    /\ AnalyzerIdle
    /\ CallsIdle
    /\ SearchIdle
    /\ FieldIdle
    /\ ModulesIdle

ExtractSymbolSource ==
    /\ source_pc = "ready"
    /\ symbol_source' = extract_symbol_source(file_source_text, [full_range |-> symbol_range])
    /\ source_pc' = "done"
    /\ UNCHANGED <<file_source_text, symbol_range,
                   parser_vars, shared_vars, analyzer_vars, calls_vars, search_vars,
                   field_vars, modules_vars>>

NextSource ==
    \/ ExtractSymbolSource

SpecSource == InitSource /\ [][NextSource]_vars

(***************************************************************************)
(* SpecModules: the module work-list that extract_all_functions and        *)
(* extract_all_structs share.                                              *)
(***************************************************************************)
Modules == 1..MaxModules

\* what Module::children can answer for the modules: any graph, with cycles
\* and shared children
ModuleGraphs ==
    {g \in [Modules -> SUBSET Modules] :
        Cardinality({link \in Modules \X Modules : link[2] \in g[link[1]]}) <= MaxChildLinks}

\* the elements of a set of modules, in the order the engine yields them
RECURSIVE InOrder(_)
InOrder(set) ==
    IF set = {}
    THEN <<>>
    ELSE LET first == CHOOSE m \in set : \A m2 \in set : m <= m2
         IN  <<first>> \o InOrder(set \ {first})

\* Vec::last in place of Vec::pop: the vector keeps the element
visit_queue_last(queue) ==
    [module |-> queue[Len(queue)], queue |-> queue]

\* Vec::pop: the last element, and the vector without it
visit_queue_pop(queue) ==
    [module |-> queue[Len(queue)], queue |-> SubSeq(queue, 1, Len(queue) - 1)]

\* a set that takes every value for a new one
visited_modules_insert_always(visited, module) ==
    [inserted |-> TRUE, set |-> visited \cup {module}]

\* FxHashSet::insert: true when the value was not in the set
visited_modules_insert(visited, module) ==
    [inserted |-> module \notin visited, set |-> visited \cup {module}]

InitModules ==
    /\ module_children \in ModuleGraphs
    /\ crate_roots \in SUBSET Modules
    /\ visit_queue = <<>>
    /\ visited_modules = {}
    /\ scanned_modules = <<>>
    /\ modules_pc = "roots"
    /\ ParserIdle
    /\ SharedIdle
    /\ AnalyzerIdle
    /\ CallsIdle
    /\ SearchIdle
    /\ FieldIdle
    /\ SourceIdle

\* The root module of every crate is pushed.
PushRootModules ==
    /\ modules_pc = "roots"
    /\ visit_queue' = visit_queue \o InOrder(crate_roots)
    /\ modules_pc' = "loop"
    /\ UNCHANGED <<module_children, crate_roots, visited_modules, scanned_modules,
                   parser_vars, shared_vars, analyzer_vars, calls_vars, search_vars,
                   field_vars, source_vars>>

\* One iteration of `while let Some(module) = visit_queue.pop()`.
VisitModule ==
    /\ modules_pc = "loop"
    /\ visit_queue # <<>>
    /\ LET popped == visit_queue_pop(visit_queue)
           insert == visited_modules_insert(visited_modules, popped.module)
       IN  /\ visited_modules' = insert.set
           /\ IF insert.inserted
              THEN /\ visit_queue' = popped.queue \o InOrder(module_children[popped.module])
                   /\ scanned_modules' = Append(scanned_modules, popped.module)
              ELSE /\ visit_queue' = popped.queue
                   /\ UNCHANGED scanned_modules
    /\ UNCHANGED <<module_children, crate_roots, modules_pc,
                   parser_vars, shared_vars, analyzer_vars, calls_vars, search_vars,
                   field_vars, source_vars>>

\* visit_queue.pop() answers None: the loop ends and the list is returned.
VisitQueueEmpty ==
    /\ modules_pc = "loop"
    /\ visit_queue = <<>>
    /\ modules_pc' = "done"
    /\ UNCHANGED <<module_children, crate_roots, visit_queue, visited_modules,
                   scanned_modules,
                   parser_vars, shared_vars, analyzer_vars, calls_vars, search_vars,
                   field_vars, source_vars>>

NextModules ==
    \/ PushRootModules
    \/ VisitModule
    \/ VisitQueueEmpty

SpecModules == InitModules /\ [][NextModules]_vars

\* The traversal is one sequential loop of a single thread: a step that can
\* be taken is taken.
SpecModulesFair == InitModules /\ [][NextModules]_vars /\ WF_vars(NextModules)

(***************************************************************************)
(* Properties of the constraint parser (SpecParser).                       *)
(***************************************************************************)
\* C1: the attribute-constraint parser never fails: for every payload text,
\* malformed ones included, parse_constraint_tokens returns a (possibly
\* empty) constraint list and never panics or returns an error.
C1_ParserNeverFails == parser_pc = "done" => ~parsed.panicked

\* C4: parsing is order-independent across keys: every ordering of the
\* comma-separated key clauses of a payload yields the same set of constraint
\* records with the same sub-field values.
C4_OrderIndependent ==
    (parser_pc = "done" /\ Range(attr_clauses) \subseteq KeyClauses) =>
        \A q \in Orderings(attr_clauses) :
            LET other == parse_constraint_tokens(Render(q))
            IN  /\ other.panicked = parsed.panicked
                /\ Range(other.value) = Range(parsed.value)

\* the constraint records of one kind, in list order
OfKind(constraints, kind) ==
    SelectSeq(constraints, LAMBDA c : c.constraint_type.kind = kind)

\* the text X of a clause `key = X`
ClauseValue(clause, key) == SubSeq(clause, Len(key) + 1, Len(clause))

\* the payload holds a seeds clause and parsing it returned
ParsedSeedsPayload ==
    /\ parser_pc = "done"
    /\ ~parsed.panicked
    /\ Range(attr_clauses) \cap SeedsClauses # {}

\* C15: bump policy of a payload with a seeds clause: the bump of the Seeds
\* constraint is Explicit(X) whenever the payload contains `bump = X`, Auto
\* whenever the key `bump` is present without `=`, and none only when the
\* key `bump` does not occur in the payload.
C15_BumpPolicy ==
    ParsedSeedsPayload =>
        /\ Len(OfKind(parsed.value, "Seeds")) = 1
        /\ LET bump == OfKind(parsed.value, "Seeds")[1].constraint_type.bump
           IN  /\ Clause.BumpEq \in Range(attr_clauses) =>
                     bump = Some(BumpExplicit(ClauseValue(Clause.BumpEq, Kw.BumpEq)))
               /\ Clause.Bump \in Range(attr_clauses) => bump = Some(BumpAuto)
               /\ bump = None => Range(attr_clauses) \cap BumpClauses = {}

C15_Witness ==
    /\ ParsedSeedsPayload
    /\ Len(attr_clauses) = MaxClauses
    /\ attr_clauses[1] = Clause.BumpEq
    /\ OfKind(parsed.value, "Seeds")[1].constraint_type.bump = Some(BumpExplicit(<<"n">>))

\* C16: a payload whose key list includes the bare key `mut` yields exactly
\* one Mut constraint record, whether or not other keys follow it, and a
\* payload none of whose keys is `mut` yields no Mut constraint record.
C16_MutKeyYieldsOneMut ==
    (parser_pc = "done" /\ ~parsed.panicked) =>
        Len(OfKind(parsed.value, "Mut"))
            = IF Clause.Mut \in Range(attr_clauses) THEN 1 ELSE 0

\* C17: a payload that contains none of the recognized keys (init, mut,
\* seeds, associated_token) yields exactly zero constraint records and no
\* error, whatever its text, for example `has_one = initializer`.
C17_NoKeysNoConstraints ==
    (parser_pc = "done" /\ Range(attr_clauses) \subseteq UnrecognizedClauses) =>
        parsed = Returned(<<>>)

\* The seed components the pieces of a bracketed seed list stand for: of
\* `[b"p", k]`, of `[i.to_le_bytes().as_ref()]` and of `[]`, whose content
\* split on commas is one empty piece.
SeedComponentsOf ==
    [c \in {Clause.Seeds, Clause.SeedsLe, Clause.SeedsEmpty} |->
        CASE c = Clause.Seeds -> <<StringLiteral(<<"p">>), Variable(<<"k">>, None)>>
          [] c = Clause.SeedsLe -> <<Variable(<<"i">>, Some(ToLeBytesAsRef))>>
          [] c = Clause.SeedsEmpty -> <<Variable(<<>>, None)>>]

C30_SeedListsWellFormed ==
    ParsedSeedsPayload =>
        \A k \in DOMAIN parsed.value :
            parsed.value[k].constraint_type.kind = "Seeds" =>
                LET seeds == parsed.value[k].constraint_type.seeds
                IN  /\ seeds # <<>>
                    /\ \A j \in DOMAIN seeds :
                          IF seeds[j].kind = "StringLiteral"
                          THEN seeds[j].text # <<>>
                          ELSE seeds[j].name # <<>>

\* C19: a payload yields an Init constraint exactly when `init` is one of its
\* keys; its payer is the text of `payer = X` up to the next comma or closing
\* delimiter (empty when there is no payer clause) and its space that of
\* `space = X` (none when there is no space clause).
C19_InitPayerSpace ==
    (parser_pc = "done" /\ ~parsed.panicked) =>
        LET inits == OfKind(parsed.value, "Init")
        IN  /\ Len(inits) = IF Clause.Init \in Range(attr_clauses) THEN 1 ELSE 0
            /\ \A k \in DOMAIN inits :
                  /\ inits[k].constraint_type.payer
                        = IF Clause.Payer \in Range(attr_clauses)
                          THEN ClauseValue(Clause.Payer, Kw.Payer)
                          ELSE <<>>
                  /\ inits[k].constraint_type.space
                        = IF Clause.Space \in Range(attr_clauses)
                          THEN Some(ClauseValue(Clause.Space, Kw.Space))
                          ELSE None

(***************************************************************************)
(* Properties of find_shared_seeds (SpecShared).                           *)
(***************************************************************************)
NoDuplicates(seq) == \A i, j \in DOMAIN seq : i # j => seq[i] # seq[j]

\* C6: the shared-seed list is deduplicated: for any two seed lists,
\* find_shared_seeds returns a list in which no seed text appears twice.
C6_SharedSeedsDeduplicated == "forward" \in shared_pc => NoDuplicates(shared)

\* C7: shared-seed computation is symmetric: the set of seed texts of
\* find_shared_seeds(A, B) equals that of find_shared_seeds(B, A).
C7_SharedSeedsSymmetric ==
    shared_pc = {"forward", "swapped"} => Range(shared) = Range(shared_swapped)

C7_Witness ==
    /\ shared_pc = {"forward", "swapped"}
    /\ shared # <<>>
    /\ seeds1 # seeds2
    /\ \E i \in DOMAIN seeds1 : \A j \in DOMAIN seeds2 : seed_match(seeds1[i], seeds2[j]) = <<>>

(***************************************************************************)
(* Properties of the struct analysis (SpecAnalyzer).                       *)
(***************************************************************************)
\* The PDA fields of the report, as <<struct index, field index>>.
PdaRefs ==
    {r \in UNION {{<<si, fi>> : fi \in DOMAIN account_structs[si].fields} :
                    si \in DOMAIN account_structs} :
        account_structs[r[1]].fields[r[2]].is_pda}

RefBefore(a, b) == a[1] < b[1] \/ (a[1] = b[1] /\ a[2] < b[2])

FieldAt(r) == account_structs[r[1]].fields[r[2]]

SeedIdentity(c) == IF c.kind = "StringLiteral" THEN <<c.kind, c.text>> ELSE <<c.kind, c.name>>

SeedIdentities(r) ==
    IF FieldAt(r).pda_info = None
    THEN {}
    ELSE {SeedIdentity(c) : c \in Range(FieldAt(r).pda_info[1].seeds)}

SharedIdentities(p) == SeedIdentities(p[1]) \cap SeedIdentities(p[2])

PdaPairs == {p \in PdaRefs \X PdaRefs : RefBefore(p[1], p[2])}

SharingPairs == {p \in PdaPairs : SharedIdentities(p) # {}}

PairBefore(p, q) == RefBefore(p[1], q[1]) \/ (p[1] = q[1] /\ RefBefore(p[2], q[2]))

\* position of the edge of a sharing pair in the list of edges
PairRank(p) == 1 + Cardinality({q \in SharingPairs : PairBefore(q, p)})

\* C2: every produced function record, struct record and field record has
\* line >= 1 and column >= 1 (fields: start and end line and column),
\* including fields whose source span cannot be resolved.
C2_PositionsOneBased ==
    /\ \A i \in DOMAIN functions :
          functions[i].line >= 1 /\ functions[i].column >= 1
    /\ \A si \in DOMAIN account_structs :
           /\ account_structs[si].line_number >= 1
           /\ account_structs[si].column_number >= 1
           /\ \A fi \in DOMAIN account_structs[si].fields :
                 LET span == account_structs[si].fields[fi].span_info
                 IN  /\ span.start_line >= 1
                     /\ span.start_column >= 1
                     /\ span.end_line >= 1
                     /\ span.end_column >= 1

\* C5: analyze_relationships emits exactly one edge for each unordered pair
\* (i<j) of PDA fields whose seed lists share at least one component, whose
\* shared-seed texts are those of the shared components, and no edge for a
\* pair that shares none; so every edge has a non-empty shared-seed list.
C5_OneEdgePerSharingPair ==
    analyzer_pc = "done" =>
        /\ Len(pda_relationships) = Cardinality(SharingPairs)
        /\ \A p \in SharingPairs :
              Range(pda_relationships[PairRank(p)].shared_seeds)
                  = {id[2] : id \in SharedIdentities(p)}
        /\ \A k \in DOMAIN pda_relationships : pda_relationships[k].shared_seeds # <<>>

C5_Witness ==
    /\ analyzer_pc = "done"
    /\ SharingPairs # {}
    /\ PdaPairs \ SharingPairs # {}

\* C8: each relationship edge names its endpoints by struct: the parent is
\* the struct containing the first PDA field of the pair, the child the
\* struct containing the second.
C8_EdgeEndpointsAreStructNames ==
    (analyzer_pc = "done" /\ Len(pda_relationships) = Cardinality(SharingPairs)) =>
        \A p \in SharingPairs :
            /\ pda_relationships[PairRank(p)].parent = account_structs[p[1][1]].name
            /\ pda_relationships[PairRank(p)].child = account_structs[p[2][1]].name

\* an absolute path outside the project root, or inside a dependency cache
\* or the build output
ExternalPath(path) ==
    \/ ~starts_with(path, ProjectRoot)
    \/ \E marker \in ExternalMarkers : contains(path, marker)

\* C14: a struct whose resolved file path does not start with the project
\* root, or contains a dependency-cache marker or the build-output marker,
\* never appears in the reported struct list, even with the derive marker; a
\* struct whose path is inside the project root and contains none of the
\* markers is not excluded by the filter.
C14_ExternalStructsExcluded ==
    \A i \in DOMAIN declarations :
        LET d == declarations[i]
        IN  d.source # None =>
               IF ExternalPath(vfs_file_path[d.source[1].file])
               THEN /\ \A k \in DOMAIN structs : structs[k] # d
                    /\ \A k \in DOMAIN account_structs : account_structs[k].name # d.name
               ELSE \E k \in DOMAIN structs : structs[k] = d

\* the markers each derive list names
DeriveMarkers ==
    [tt \in {Derive.Accounts, Derive.CloneDebug, Derive.AccountsExit} |->
        CASE tt = Derive.Accounts -> {"Accounts"}
          [] tt = Derive.CloneDebug -> {"Clone", "Debug"}
          [] tt = Derive.AccountsExit -> {"AccountsExit", "Clone"}]

\* C21: a struct record appears in the report only if one of the derive
\* attributes of the struct lists the marker `Accounts` itself; a struct whose
\* derive lists hold only other markers, even markers whose name contains the
\* text Accounts, is skipped entirely.
C21_RecordsDeriveAccounts ==
    \A k \in DOMAIN account_structs :
        \A i \in DOMAIN declarations :
            declarations[i].name = account_structs[k].name =>
                \E a \in DOMAIN declarations[i].attrs :
                    /\ declarations[i].attrs[a].path = "derive"
                    /\ "Accounts" \in DeriveMarkers[declarations[i].attrs[a].token_tree[1]]

\* a struct that carries the derive marker and whose source resolves
Qualifies(d) == has_accounts_derive(d.attrs) /\ d.source # None

\* the analysis of the struct panics
Faults(d) == analyze_single_struct_inner_of[d].panicked

\* C12: per-item fault isolation in the struct analysis: when the analysis of
\* some structs panics, analyze_account_structs still returns, and its result
\* is exactly the records of the qualifying structs that did not fault, in
\* their original order; a faulting struct leaves no record, not a partial one.
C12_FaultingStructsAreSkipped ==
    LET analysed == SubSeq(structs, 1, struct_idx)
        kept == SelectSeq(analysed, LAMBDA d : Qualifies(d) /\ ~Faults(d))
    IN  /\ Len(account_structs) = Len(kept)
        /\ \A k \in DOMAIN kept :
              account_structs[k] = analyze_single_struct_inner_of[kept[k]].value[1]

C12_Witness ==
    /\ analyzer_pc = "done"
    /\ Len(structs) = 2
    /\ Faults(structs[1])
    /\ Qualifies(structs[2]) /\ ~Faults(structs[2])
    /\ Len(account_structs) = 1
    /\ account_structs[1].name = structs[2].name

(***************************************************************************)
(* Properties of the PDA information of a field (SpecField).               *)
(***************************************************************************)
\* C20: extract_pda_info returns none when the constraint list has no Seeds
\* constraint; otherwise a descriptor whose seed list is that of the first
\* Seeds constraint in list order (later ones are ignored), whose bump is
\* that constraint's bump, or Auto when it has none, and whose program id,
\* canonical bump and derived address are unset. A field annotated
\* seeds = [b"global"] with no bump yields one StringLiteral("global") seed
\* and Auto; the is-PDA flag of a field agrees with the presence of the
\* descriptor.
C20_PdaInfoFromFirstSeeds ==
    (field_pc = "done" /\ ~field_outcome.panicked) =>
        LET field == field_outcome.value
            seeds_constraints == OfKind(field.constraints, "Seeds")
        IN  /\ field.is_pda = (field.pda_info # None)
            /\ seeds_constraints = <<>> =>
                  /\ field.pda_info = None
                  /\ extract_pda_info(field.constraints) = None
            /\ seeds_constraints # <<>> =>
                  LET first == seeds_constraints[1].constraint_type
                  IN  field.pda_info =
                         Some([seeds |-> first.seeds,
                               bump |-> IF first.bump = None THEN BumpAuto
                                        ELSE first.bump[1],
                               program_id |-> None,
                               canonical_bump |-> None,
                               derived_address |-> None])
            /\ field_attrs = <<Attr("account", Payload.Global)>> =>
                  /\ field.pda_info # None
                  /\ field.pda_info[1].seeds = <<StringLiteral(<<"g", "l", "o", "b", "a", "l">>)>>
                  /\ field.pda_info[1].bump = BumpAuto

C20_Witness ==
    /\ field_pc = "done"
    /\ ~field_outcome.panicked
    /\ field_attrs = <<Attr("account", Payload.Global), Attr("account", Payload.ExplicitBump)>>
    /\ field_outcome.value.pda_info
          = Some(PdaInfo(<<StringLiteral(<<"g", "l", "o", "b", "a", "l">>)>>, BumpAuto))

\* the sum of the values of a function with a finite domain
RECURSIVE SumOf(_)
SumOf(counts) ==
    IF DOMAIN counts = {}
    THEN 0
    ELSE LET x == CHOOSE x \in DOMAIN counts : TRUE
         IN  counts[x] + SumOf([y \in DOMAIN counts \ {x} |-> counts[y]])

\* the fields of the reported structs, each named by the position of its
\* struct and its own position
ReportedFields ==
    {pos \in (DOMAIN account_structs) \X (1..MaxFields) :
        pos[2] \in DOMAIN account_structs[pos[1]].fields}

\* the count the histogram of the summary gives for a constraint name
HistogramCount(name) ==
    IF name \in DOMAIN constraint_summary[1].constraint_types
    THEN constraint_summary[1].constraint_types[name]
    ELSE 0

\* C28: the constraint summary is consistent with the reported structs:
\* total_constraints is the sum of all histogram counts and the total number
\* of constraint records over all fields; init_accounts is the histogram count
\* for init and mutable_accounts the count for mut; pda_count equals the
\* pda_fields of the statistics, both being the number of fields with is_pda
\* set.
C28_SummaryConsistent ==
    analyzer_pc = "done" =>
        LET summary == constraint_summary[1]
            field(pos) == account_structs[pos[1]].fields[pos[2]]
        IN  /\ summary.total_constraints = SumOf(summary.constraint_types)
            /\ summary.total_constraints
                  = SumOf([pos \in ReportedFields |-> Len(field(pos).constraints)])
            /\ summary.init_accounts = HistogramCount("init")
            /\ summary.mutable_accounts = HistogramCount("mut")
            /\ summary.pda_count = statistics[1].pda_fields
            /\ summary.pda_count = Cardinality({pos \in ReportedFields : field(pos).is_pda})

\* a report with an init constraint, a mut constraint, a PDA field, a field
\* without constraint and a field with more than one
C28_Witness ==
    /\ analyzer_pc = "done"
    /\ constraint_summary[1].init_accounts > 0
    /\ constraint_summary[1].mutable_accounts > 0
    /\ constraint_summary[1].pda_count > 0
    /\ \E pos \in ReportedFields :
          Len(account_structs[pos[1]].fields[pos[2]].constraints) > 1
    /\ \E pos \in ReportedFields :
          account_structs[pos[1]].fields[pos[2]].constraints = <<>>

(***************************************************************************)
(* Properties of the call graph (SpecCalls).                               *)
(***************************************************************************)
\* C13: no function record of the catalogue the call graph is built from
\* comes from a file outside the project root or inside a dependency-cache or
\* build-output directory.
C13_NoExternalFunctions ==
    \A i \in DOMAIN functions : ~ExternalPath(functions[i].file_path)

\* C3: no emitted call edge has a callee whose target start offset is
\* greater than the length of the callee's file.
C3_CalleeStartWithinFile ==
    /\ Len(edge_items) = Len(call_relations)
    /\ \A k \in DOMAIN call_relations :
          /\ call_relations[k].callee.name = edge_items[k].target.name
          /\ focus_or_full_range(edge_items[k].target).start
                <= Len(file_text[edge_items[k].target.file_id])

C3_Witness ==
    /\ calls_pc = "done"
    /\ \E k \in DOMAIN call_relations :
          focus_or_full_range(edge_items[k].target).start
             = Len(file_text[edge_items[k].target.file_id])
    /\ \E k \in DOMAIN call_relations :
          \E f \in FileIds :
             focus_or_full_range(edge_items[k].target).start > Len(file_text[f])

\* the edges expected of the first n callers: for each caller in catalog
\* order, one edge for each reported call item that yields one, in the order
\* of the report
RECURSIVE EdgesInDiscoveryOrder(_)
EdgesInDiscoveryOrder(n) ==
    IF n = 0
    THEN <<>>
    ELSE LET caller == functions[n]
             kept == SelectSeq(outgoing_calls[n],
                        LAMBDA item : create_call_relation_from_item(caller, item) # None)
         IN  EdgesInDiscoveryOrder(n - 1)
             \o [j \in 1..Len(kept) |-> create_call_relation_from_item(caller, kept[j])[1]]

\* C22: call edges preserve discovery order: the edge list is the
\* concatenation, in catalog order of the caller functions, of the edges of
\* each caller in the order the engine reported its call targets; a function
\* with no outgoing calls contributes no edge.
C22_EdgesInDiscoveryOrder ==
    /\ Len(outgoing_calls) = func_idx
    /\ call_relations = EdgesInDiscoveryOrder(func_idx)

\* complex_operation calls calculate_square, then calculate_cube
C22_Witness ==
    /\ calls_pc = "done"
    /\ Len(call_relations) = 2
    /\ call_relations[1].caller.name = "complex_operation"
    /\ call_relations[1].callee.name = "calculate_square"
    /\ call_relations[2].caller.name = "complex_operation"
    /\ call_relations[2].callee.name = "calculate_cube"
    /\ \E i \in DOMAIN outgoing_calls : outgoing_calls[i] = <<>>

\* the start offset of the target of a call item exceeds the length of the
\* file of the target
TargetOutOfRange(item) ==
    focus_or_full_range(item.target).start > Len(file_text[item.target.file_id])

\* the edges of the first n callers had the engine not reported the call
\* targets that are out of range
RECURSIVE EdgesOfTargetsInRange(_)
EdgesOfTargetsInRange(n) ==
    IF n = 0
    THEN <<>>
    ELSE EdgesOfTargetsInRange(n - 1)
         \o relations_of_items(functions[n],
                SelectSeq(outgoing_calls[n], LAMBDA item : ~TargetOutOfRange(item)))

\* C23: an out-of-range call target discards only its own edge: no edge is
\* emitted for a reported target whose start offset exceeds the length of its
\* file, every other target reported for the same caller and for every other
\* caller yields the edge it yields without it, and the run ends only after
\* the last caller was visited.
C23_OutOfRangeTargetDropsOwnEdge ==
    /\ \A k \in DOMAIN edge_items : ~TargetOutOfRange(edge_items[k])
    /\ call_relations = EdgesOfTargetsInRange(func_idx)
    /\ Len(outgoing_calls) = func_idx
    /\ calls_pc = "done" => func_idx = Len(functions)

\* an out-of-range target reported first, a target that yields an edge second,
\* and a second caller
C23_Witness ==
    /\ calls_pc = "done"
    /\ Len(outgoing_calls) = 2
    /\ Len(outgoing_calls[1]) = 2
    /\ TargetOutOfRange(outgoing_calls[1][1])
    /\ Len(call_relations) = 1
    /\ call_relations[1].caller = functions[1]
    /\ call_relations[1].callee.name = outgoing_calls[1][2].target.name

\* the 1-based line and column of a byte offset of a file
PositionOf(f, offset) ==
    LET text == file_text[f]
        before == {i \in 1..offset : text[i] = "\n"}
    IN  [line |-> 1 + Cardinality(before),
         column |-> 1 + offset - (IF before = {} THEN 0
                                  ELSE CHOOSE i \in before : \A j \in before : j <= i)]

\* C24: the call-site line and column of an emitted edge are the 1-based
\* position of the start of the first call range reported for the target;
\* when the target has no call range, they are the 1-based line and column of
\* the callee itself.
C24_CallSiteFromFirstRange ==
    /\ Len(edge_items) = Len(call_relations)
    /\ \A k \in DOMAIN call_relations :
          LET edge == call_relations[k]
              ranges == edge_items[k].ranges
          IN  IF ranges # <<>>
              THEN /\ edge.call_site_line = PositionOf(ranges[1].file_id, ranges[1].start).line
                   /\ edge.call_site_column
                         = PositionOf(ranges[1].file_id, ranges[1].start).column
              ELSE /\ edge.call_site_line = edge.callee.line
                   /\ edge.call_site_column = edge.callee.column

\* an edge of a target with two call ranges at different positions, and an
\* edge of a target without call range
C24_Witness ==
    /\ \E k \in DOMAIN call_relations :
          /\ Len(edge_items[k].ranges) = 2
          /\ edge_items[k].ranges[1] # edge_items[k].ranges[2]
    /\ \E k \in DOMAIN call_relations : edge_items[k].ranges = <<>>

(***************************************************************************)
(* Properties of the module enumeration (SpecModules).                     *)
(***************************************************************************)
\* the modules that a chain of child links reaches from a set of modules
RECURSIVE ReachableFrom(_)
ReachableFrom(set) ==
    LET next == set \cup UNION {module_children[m] : m \in set}
    IN  IF next = set THEN set ELSE ReachableFrom(next)

\* C25: module enumeration scans each module at most once and misses none:
\* for any module graph, when the work-list traversal finishes, the set of
\* scanned modules is the set of modules reachable from the root modules, and
\* the declarations of no module were scanned twice.
C25_EachReachableModuleScannedOnce ==
    /\ \A i, j \in DOMAIN scanned_modules :
          scanned_modules[i] = scanned_modules[j] => i = j
    /\ modules_pc = "done" =>
          {scanned_modules[i] : i \in DOMAIN scanned_modules} = ReachableFrom(crate_roots)

\* a finished traversal of a graph where a module that is not a root has two
\* parents, both reachable
C25_Witness ==
    /\ modules_pc = "done"
    /\ \E m \in Modules \ crate_roots :
          \E p1, p2 \in ReachableFrom(crate_roots) :
             /\ p1 # p2
             /\ m \in module_children[p1]
             /\ m \in module_children[p2]
    /\ Len(scanned_modules) = MaxModules

\* C26: module enumeration terminates: for every finite module graph, with
\* cycles or shared children, the work-list loop eventually empties the stack
\* and returns.
C26_EnumerationTerminates ==
    <>(modules_pc = "done" /\ visit_queue = <<>>)

\* a finished traversal of a graph where a reachable module is its own
\* descendant through another module
C26_Witness ==
    /\ modules_pc = "done"
    /\ visit_queue = <<>>
    /\ \E m, c \in ReachableFrom(crate_roots) :
          /\ m # c
          /\ c \in module_children[m]
          /\ m \in ReachableFrom({c})

(***************************************************************************)
(* Properties of the symbol search (SpecSearch).                           *)
(***************************************************************************)
\* C9: every entry of the result list of a symbol search has a name exactly
\* equal to the requested term, in the source finder and the symbol finder.
C9_ResultsMatchNameExactly ==
    \A i \in DOMAIN search_results : search_results[i].name = symbol_name

\* C10: when the engine cancels a symbol search, the search yields an empty
\* result set and the run completes normally; the cancellation never aborts
\* the run as an error.
C10_CancelledSearchIsEmptyResult ==
    (search_pc = "done" /\ search_cancelled) =>
        (run_result = "ok" /\ search_results = <<>>)

\* C27: the function-call listing of the source finder filters out external
\* library calls: get_function_calls never returns a call whose callee file
\* is outside the project root or inside a dependency-cache or build
\* directory.
C27_ListingHasNoExternalCallee ==
    search_cmd = "source_finder" =>
        \A i \in DOMAIN outputs :
            outputs[i].calls # None =>
                \A k \in DOMAIN outputs[i].calls[1] :
                    ~ExternalPath(outputs[i].calls[1][k].callee.file_path)

\* C29: for every file text and every full range with start < end <= text
\* length, extract_symbol_source of the source finder completes without
\* failure and returns line numbers with
\* 1 <= start_line <= end_line <= number of lines, also when the end offset
\* lies at the end of a text that ends with a newline.
C29_SymbolLinesWellFormed ==
    (/\ source_pc = "done"
     /\ symbol_range.start < symbol_range.end
     /\ symbol_range.end <= Len(file_source_text)) =>
        /\ ~symbol_source.panicked
        /\ 1 <= symbol_source.value.start_line
        /\ symbol_source.value.start_line <= symbol_source.value.end_line
        /\ symbol_source.value.end_line <= Len(lines(file_source_text))

\* C11: source-slice extraction never fails on a bad range: the full range of
\* a found symbol is clamped to the length of its file, a range that is empty
\* after clamping gives an empty slice instead of an error, and the run goes
\* on with the remaining symbols.
C11_BadRangeYieldsEmptySlice ==
    /\ run_result # "panic"
    /\ (search_cmd = "symbol_finder" /\ search_pc = "process"
            /\ symbol_idx < Len(search_results)) =>
           extract_symbol_content(search_results[symbol_idx + 1], TRUE).ok

====
